---- MODULE Spec2Model ----
(***************************************************************************)
(* Model of grr_response_server/databases/mysql_flows.py: the flow         *)
(* request/response correlator, the flow processing lease and the two      *)
(* leased queues (flow processing requests, message handler requests).     *)
(*                                                                         *)
(* Storage model.  The tables are the committed state of the store.  A    *)
(* transaction's writes become visible at its commit (read committed);     *)
(* a transaction that the code runs as several statements with reads that  *)
(* other transactions can interleave with is split into one action per     *)
(* statement group, with the values it has read kept in the caller's       *)
(* local state.  SELECT ... FOR UPDATE takes a row lock that is held to    *)
(* the commit and that blocks every other writer of the row.               *)
(***************************************************************************)
EXTENDS Integers, Sequences, FiniteSets, TLC

VARIABLES
  flows,                      \* table flows: flow_id -> row
  flow_requests,              \* table flow_requests: set of rows
  flow_responses,             \* table flow_responses: set of rows
  flow_processing_requests,   \* table flow_processing_requests: set of rows
  message_handler_requests,   \* table message_handler_requests: set of rows
  hunts,                      \* table hunts: hunt_id -> hunt_state
  now,                        \* the clock (RDFDatetime.Now() / NOW(6))
  serial,                     \* statement counter: stands for the microsecond
                              \* value of a row's DEFAULT NOW(6) timestamp
  wr,                         \* WriteFlowResponses calls in flight, per caller
  lf,                         \* LeaseFlowForProcessing calls in flight, per worker
  lq,                         \* queue Lease calls in flight, per worker
  loops,                      \* the dispatch loop of a process: stop flag,
                              \* thread reference, threads, handler pool
  hist                        \* observations of what the calls returned and wrote

vars == <<flows, flow_requests, flow_responses, flow_processing_requests,
          message_handler_requests, hunts, now, serial, wr, lf, lq, loops,
          hist>>

----------------------------------------------------------------------------
(* SQL NULL: a nullable column holds <<>> (NULL) or <<v>>.                 *)

NULL == <<>>

Some(v) == <<v>>

Val(x) == x[1]

\* SQL comparison "col < v" / "col <= v" / "col = v": never true of NULL.
SqlLt(col, v) == col # NULL /\ Val(col) < v

SqlLe(col, v) == col # NULL /\ Val(col) <= v

SqlEq(col, v) == col # NULL /\ Val(col) = v

SetToSeq(S) ==
  CHOOSE s \in [1..Cardinality(S) -> S] : \A x \in S : \E i \in DOMAIN s : s[i] = x

RECURSIVE SeqToSet(_)
SeqToSet(s) == IF s = <<>> THEN {} ELSE {Head(s)} \cup SeqToSet(Tail(s))

----------------------------------------------------------------------------
(* Bounds and universes.                                                   *)

FlowIds == {"F1"}

RequestIds == {1, 2}

ResponseIds == {1, 2}

Workers == {"w1", "w2"}

Callers == {"A", "B"}

MaxNow == 2

\* Calls stop arriving once this many FlowProcessingRequests are stored.
MaxFprs == 2

\* _WRITE_ROWS_BATCH_SIZE, scaled down.
WRITE_ROWS_BATCH_SIZE == 2

----------------------------------------------------------------------------
(* Rows.                                                                   *)

\* A row of table flows (the columns the operations below read or write).
FlowRow(next, payload, state, acct, hunt) ==
  [ next_request_to_process    |-> next,
    flow                       |-> payload,
    flow_state                 |-> state,
    parent_hunt_id             |-> hunt,
    client_crash_info          |-> NULL,
    processing_on              |-> NULL,
    processing_since           |-> NULL,
    processing_deadline        |-> NULL,
    user_cpu_time_used_micros  |-> acct,
    system_cpu_time_used_micros |-> acct,
    network_bytes_sent         |-> acct,
    num_replies_sent           |-> acct,
    last_update                |-> 0 ]

\* A row of table flow_requests as WriteFlowRequests inserts it.
RequestRow(f, id, np, cb, st) ==
  [ flow_id |-> f, request_id |-> id, needs_processing |-> np,
    responses_expected |-> NULL, callback_state |-> cb, start_time |-> st ]

\* A FlowResponse / FlowStatus / FlowIterator message.
ResponseMsg(f, rid, id, k) ==
  [ flow_id |-> f, request_id |-> rid, response_id |-> id, kind |-> k ]

RequestKey(r) == <<r.flow_id, r.request_id>>

ResponseKey(r) == <<r.flow_id, r.request_id, r.response_id>>

\* Variant: the first chunk only.
Batch_FirstChunkOnly(s, n) ==
  IF s = <<>> THEN <<>>
  ELSE IF Len(s) <= n THEN <<s>>
  ELSE <<SubSeq(s, 1, n)>>

\* collection.Batch: consecutive chunks of at most n items.
RECURSIVE Batch(_, _)
Batch(s, n) ==
  IF s = <<>> THEN <<>>
  ELSE IF Len(s) <= n THEN <<s>>
  ELSE <<SubSeq(s, 1, n)>> \o Batch(SubSeq(s, n + 1, Len(s)), n)

----------------------------------------------------------------------------
(* FlowProcessingRequest rows.                                             *)

\* _WriteFlowProcessingRequests: one multi-row INSERT.  Every row of the
\* statement gets the statement's NOW(6) as timestamp; rowid tells apart
\* the rows of one statement (the table is a bag).  delivery_time is
\* stored only when the message carries a non-zero one.
WriteFlowProcessingRequestsRows(tbl, fprs, stamp) ==
  tbl \cup
    { [ rowid |-> <<stamp, i>>,
        flow_id |-> fprs[i].flow_id,
        timestamp |-> stamp,
        delivery_time |-> IF fprs[i].delivery_time # NULL
                             /\ Val(fprs[i].delivery_time) # 0
                          THEN fprs[i].delivery_time ELSE NULL,
        leased_until |-> NULL,
        leased_by |-> NULL ] : i \in DOMAIN fprs }

----------------------------------------------------------------------------
(* The correlator: WriteFlowResponses.                                     *)

\* Variant: INSERT that stores a row although its key is stored already.
RECURSIVE WriteResponses_NoIgnore(_, _, _)
WriteResponses_NoIgnore(tbl, requests, batch) ==
  IF batch = <<>> THEN tbl
  ELSE LET r == Head(batch)
           known == \E q \in requests : RequestKey(q) = RequestKey(r)
       IN WriteResponses_NoIgnore(IF known THEN tbl \cup {r} ELSE tbl,
                                  requests, Tail(batch))

\* _WriteResponses: INSERT IGNORE of the batch.  A row whose key is already
\* stored is skipped; a row whose request is not stored violates the
\* foreign key, and the one-by-one retry stores the others.
RECURSIVE WriteResponses(_, _, _)
WriteResponses(tbl, requests, batch) ==
  IF batch = <<>> THEN tbl
  ELSE LET r == Head(batch)
           known == \E q \in requests : RequestKey(q) = RequestKey(r)
           dup == \E s \in tbl : ResponseKey(s) = ResponseKey(r)
       IN WriteResponses(IF known /\ ~dup THEN tbl \cup {r} ELSE tbl,
                         requests, Tail(batch))

\* The loop of _WriteFlowResponsesAndExpectedUpdates: for every FlowStatus of
\* the batch, in order, UPDATE flow_requests SET responses_expected.
RECURSIVE ExpectedUpdates(_, _)
ExpectedUpdates(requests, batch) ==
  IF batch = <<>> THEN requests
  ELSE LET r == Head(batch)
           upd == { IF RequestKey(q) = RequestKey(r)
                    THEN [q EXCEPT !.responses_expected = Some(r.response_id)]
                    ELSE q : q \in requests }
       IN ExpectedUpdates(IF r.kind = "status" THEN upd ELSE requests,
                          Tail(batch))

\* Variant: a batch that names a request that is not stored is not counted.
ReadFlowResponseCounts_KnownBatchesOnly(request_keys) ==
  LET cnt(k) == Cardinality({ s \in flow_responses :
                               <<s.flow_id, s.request_id>> = k })
      grp == { k \in request_keys :
                 /\ \A k2 \in request_keys : \E q \in flow_requests :
                      RequestKey(q) = k2
                 /\ \E q \in flow_requests :
                      RequestKey(q) = k /\ q.needs_processing = FALSE
                 /\ cnt(k) > 0 }
  IN [ k \in grp |-> cnt(k) ]

\* _ReadFlowResponseCounts: COUNT(*) of the join of flow_responses with the
\* requests of request_keys that have needs_processing = FALSE, grouped by
\* request.  A request without a stored response has no group.
ReadFlowResponseCounts(request_keys) ==
  LET cnt(k) == Cardinality({ s \in flow_responses :
                               <<s.flow_id, s.request_id>> = k })
      grp == { k \in request_keys :
                 /\ \E q \in flow_requests :
                      RequestKey(q) = k /\ q.needs_processing = FALSE
                 /\ cnt(k) > 0 }
  IN [ k \in grp |-> cnt(k) ]

\* _ReadAndLockNextRequestsToProcess: SELECT ... FOR UPDATE on the flows.
ReadAndLockNextRequestsToProcess(flow_keys) ==
  [ f \in { g \in flow_keys : g \in DOMAIN flows } |->
      flows[f].next_request_to_process ]

\* Variant: the SELECT without "AND NOT needs_processing".
AffectedRequests_AlsoMarked(requests, response_counts) ==
  { q \in requests :
      /\ RequestKey(q) \in DOMAIN response_counts
      /\ \/ SqlEq(q.responses_expected, response_counts[RequestKey(q)])
         \/ q.callback_state # "" }

\* Variant: the SELECT without the comparison with responses_expected.
AffectedRequests_AnyCount(requests, response_counts) ==
  { q \in requests :
      /\ RequestKey(q) \in DOMAIN response_counts
      /\ ~q.needs_processing }

\* Variant: the SELECT without the callback_state alternative.
AffectedRequests_NoCallback(requests, response_counts) ==
  { q \in requests :
      /\ RequestKey(q) \in DOMAIN response_counts
      /\ SqlEq(q.responses_expected, response_counts[RequestKey(q)])
      /\ ~q.needs_processing }

\* _ReadLockAndUpdateAffectedRequests, the SELECT ... FOR UPDATE: the
\* requests of response_counts that are not marked and either have
\* responses_expected equal to the count read or a callback_state.
AffectedRequests(requests, response_counts) ==
  { q \in requests :
      /\ RequestKey(q) \in DOMAIN response_counts
      /\ \/ SqlEq(q.responses_expected, response_counts[RequestKey(q)])
         \/ q.callback_state # ""
      /\ ~q.needs_processing }

\* Variant: the UPDATE without the comparison with responses_expected.
MarkCompletedRequests_AnyCount(requests, response_counts) ==
  { IF RequestKey(q) \in DOMAIN response_counts /\ ~q.needs_processing
    THEN [q EXCEPT !.needs_processing = TRUE]
    ELSE q : q \in requests }

\* Variant: the UPDATE under the condition of the SELECT.
MarkCompletedRequests_WithCallback(requests, response_counts) ==
  { IF /\ RequestKey(q) \in DOMAIN response_counts
       /\ \/ SqlEq(q.responses_expected, response_counts[RequestKey(q)])
          \/ q.callback_state # ""
       /\ ~q.needs_processing
    THEN [q EXCEPT !.needs_processing = TRUE]
    ELSE q : q \in requests }

\* _ReadLockAndUpdateAffectedRequests, the UPDATE: the callback-agnostic
\* condition marks the requests whose responses_expected equals the count.
MarkCompletedRequests(requests, response_counts) ==
  { IF /\ RequestKey(q) \in DOMAIN response_counts
       /\ SqlEq(q.responses_expected, response_counts[RequestKey(q)])
       /\ ~q.needs_processing
    THEN [q EXCEPT !.needs_processing = TRUE]
    ELSE q : q \in requests }

\* _UpdateRequestsAndScheduleFPRs, lines 1014-1025: one FPR per affected
\* request that is its flow's next_request_to_process.
FprsToWrite(affected, next_requests) ==
  SetToSeq({ [ flow_id |-> q.flow_id, delivery_time |-> q.start_time ] :
             q \in { a \in affected :
                       next_requests[a.flow_id] = a.request_id } })

----------------------------------------------------------------------------
(* WriteFlowResponses as the transactions it runs.                         *)

\* A call in flight: the batches still to write (todo), and the locals of
\* _UpdateRequestsAndScheduleFPRs for the batch it has written.
WrIdle ==
  [ pc |-> "idle", todo |-> <<>>, request_keys |-> {}, flow_keys |-> {},
    response_counts |-> <<>>, next_requests |-> <<>>, nth |-> {} ]

\* Variant: the keys of the rows of the batch that the INSERT IGNORE stores.
BatchRequestKeys_NewOnly(batch) ==
  { RequestKey(r) : r \in { b \in SeqToSet(batch) :
      \A s \in flow_responses : ResponseKey(s) # ResponseKey(b) } }

\* Lines 998-1001.
BatchRequestKeys(batch) == { RequestKey(r) : r \in SeqToSet(batch) }

BatchFlowKeys(batch) == { r.flow_id : r \in SeqToSet(batch) }

\* The callers whose completion-detection transaction holds the FOR UPDATE
\* lock on flow f.
FlowLockHolders(f) ==
  { c \in Callers : wr[c].pc = "update" /\ f \in DOMAIN wr[c].next_requests }

\* The number of distinct response keys stored for request k.
StoredCount(k) ==
  Cardinality({ ResponseKey(s) : s \in
    { t \in flow_responses : <<t.flow_id, t.request_id>> = k } })

\* The requests of a table whose responses_expected equals the number of
\* distinct response keys a table of responses holds for them.
CompleteKeys(requests, responses) ==
  { RequestKey(q) : q \in { a \in requests :
      SqlEq(a.responses_expected,
            Cardinality({ ResponseKey(t) : t \in { u \in responses :
              <<u.flow_id, u.request_id>> = RequestKey(a) } })) } }

\* _WriteFlowResponsesAndExpectedUpdates: the first transaction of a batch,
\* committed; the caller goes on to _UpdateRequestsAndScheduleFPRs(batch).
\* nth keeps the requests this write completed.
WriteFlowResponsesAndExpectedUpdates(c, batches) ==
  /\ flow_responses' =
       WriteResponses(flow_responses, flow_requests, Head(batches))
  /\ flow_requests' = ExpectedUpdates(flow_requests, Head(batches))
  /\ wr' = [wr EXCEPT ![c] =
              [WrIdle EXCEPT !.pc = "count",
                             !.todo = Tail(batches),
                             !.request_keys = BatchRequestKeys(Head(batches)),
                             !.flow_keys = BatchFlowKeys(Head(batches)),
                             !.nth =
                               CompleteKeys(flow_requests', flow_responses')
                               \ CompleteKeys(flow_requests,
                                              flow_responses)]]

\* The call carries a response whose key is already stored, or twice.
Resends(responses) ==
  \/ \E i \in DOMAIN responses : \E s \in flow_responses :
       ResponseKey(s) = ResponseKey(responses[i])
  \/ \E i, j \in DOMAIN responses :
       i # j /\ ResponseKey(responses[i]) = ResponseKey(responses[j])

\* WriteFlowResponses, lines 1044-1048: an empty call returns at once; the
\* responses are cut into batches of _WRITE_ROWS_BATCH_SIZE (n) and the
\* first batch is written.
WriteFlowResponses(c, responses, n) ==
  /\ wr[c].pc = "idle"
  /\ Cardinality(flow_processing_requests)
       + Cardinality({ d \in Callers : wr[d].pc # "idle" }) < MaxFprs
  /\ responses # <<>>
  /\ WriteFlowResponsesAndExpectedUpdates(c, Batch(responses, n))
  /\ hist' = [hist EXCEPT !.resent = @ \/ Resends(responses)]
  /\ UNCHANGED <<loops, lq, flows, flow_processing_requests, message_handler_requests,
                 hunts, now, serial, lf>>

\* WriteFlowResponses, lines 1047-1048, a further turn of the loop.
WriteFlowResponses_NextBatch(c) ==
  /\ wr[c].pc = "write"
  /\ WriteFlowResponsesAndExpectedUpdates(c, wr[c].todo)
  /\ UNCHANGED <<loops, lq, flows, flow_processing_requests, message_handler_requests,
                 hunts, now, serial, lf, hist>>

\* _UpdateRequestsAndScheduleFPRs, line 1003: the count is a plain
\* (non-locking) read.
UpdateRequestsAndScheduleFPRs_Count(c) ==
  /\ wr[c].pc = "count"
  /\ wr' = [wr EXCEPT ![c].pc = "lock",
                      ![c].response_counts =
                        ReadFlowResponseCounts(wr[c].request_keys)]
  /\ UNCHANGED <<loops, lq, flows, flow_requests, flow_responses,
                 flow_processing_requests, message_handler_requests,
                 hunts, now, serial, lf, hist>>

\* _UpdateRequestsAndScheduleFPRs, line 1005: waits for the row locks of
\* the flows of the batch, then reads next_request_to_process.
UpdateRequestsAndScheduleFPRs_Lock(c) ==
  /\ wr[c].pc = "lock"
  /\ \A f \in wr[c].flow_keys : FlowLockHolders(f) = {}
  /\ wr' = [wr EXCEPT ![c].pc = "update",
                      ![c].next_requests =
                        ReadAndLockNextRequestsToProcess(wr[c].flow_keys)]
  /\ UNCHANGED <<loops, lq, flows, flow_requests, flow_responses,
                 flow_processing_requests, message_handler_requests,
                 hunts, now, serial, lf, hist>>

\* The requests whose needs_processing goes from FALSE to TRUE between two
\* states of the table.
NewlyMarked(before, after) ==
  { RequestKey(q) : q \in { a \in after :
      a.needs_processing
      /\ \E b \in before : RequestKey(b) = RequestKey(a)
                           /\ ~b.needs_processing } }

\* _UpdateRequestsAndScheduleFPRs, lines 1007-1028, and the commit, which
\* releases the locks; WriteFlowResponses then goes on to the next batch.
UpdateRequestsAndScheduleFPRs_Commit(c) ==
  /\ wr[c].pc = "update"
  /\ LET affected == AffectedRequests(flow_requests, wr[c].response_counts)
         marked == MarkCompletedRequests(flow_requests, wr[c].response_counts)
         notified == { a \in affected :
                         wr[c].next_requests[a.flow_id] = a.request_id }
         fprs == FprsToWrite(affected, wr[c].next_requests)
         rest == wr[c].todo
     IN /\ flow_requests' = marked
        /\ flow_processing_requests' =
             WriteFlowProcessingRequestsRows(flow_processing_requests,
                                             fprs, serial)
        /\ serial' = IF fprs = <<>> THEN serial ELSE serial + 1
        /\ wr' = [wr EXCEPT ![c] = IF rest = <<>> THEN WrIdle
                                   ELSE [WrIdle EXCEPT !.pc = "write",
                                                       !.todo = rest]]
        /\ hist' = [hist EXCEPT
             !.marks = [k \in DOMAIN @ |->
                          IF k \in NewlyMarked(flow_requests, marked)
                          THEN @[k] + 1 ELSE @[k]],
             !.short_marks = @ \cup
                { RequestKey(q) : q \in { a \in flow_requests :
                    /\ RequestKey(a) \in NewlyMarked(flow_requests, marked)
                    /\ ~SqlLe(a.responses_expected,
                              StoredCount(RequestKey(a))) } },
             !.raced = @ \cup
                { RequestKey(q) : q \in { a \in flow_requests :
                    /\ RequestKey(a) \in DOMAIN wr[c].response_counts
                    /\ SqlEq(a.responses_expected,
                             wr[c].response_counts[RequestKey(a)])
                    /\ a.needs_processing } },
             !.early = @ \cup
                { RequestKey(q) : q \in { a \in flow_requests :
                    /\ RequestKey(a) \in wr[c].request_keys
                    /\ wr[c].next_requests[a.flow_id] = a.request_id
                    /\ ~SqlLe(a.responses_expected,
                              StoredCount(RequestKey(a)))
                    /\ fprs = <<>> } },
             !.fpr_for = [k \in DOMAIN @ |->
                          IF k \in { RequestKey(a) : a \in notified }
                          THEN @[k] + 1 ELSE @[k]]]
  /\ UNCHANGED <<loops, lq, flows, flow_responses, message_handler_requests,
                 hunts, now, lf>>

\* The requests that have all their responses stored and are not marked.
CompleteUnmarked ==
  { RequestKey(q) : q \in { a \in flow_requests :
      /\ ~a.needs_processing
      /\ SqlEq(a.responses_expected, StoredCount(RequestKey(a))) } }

\* WriteFlowResponses, between lines 1048 and 1049: the two transactions of
\* a batch are separate, and the process that runs the call can stop once
\* the first has committed.  Nothing is rolled back, and the call never
\* reaches _UpdateRequestsAndScheduleFPRs.  hist.ret keeps the requests of
\* the batch that the call leaves complete and unmarked.
WriteFlowResponses_Stop(c) ==
  /\ wr[c].pc = "count"
  /\ wr' = [wr EXCEPT ![c] = WrIdle]
  /\ hist' = [hist EXCEPT !.ret =
       [ op |-> "WriteFlowResponses_Stop", who |-> c,
         arg |-> wr[c].request_keys \cap CompleteUnmarked,
         result |-> FALSE, error |-> "none" ]]
  /\ UNCHANGED <<loops, lq, flows, flow_requests, flow_responses,
                 flow_processing_requests, message_handler_requests,
                 hunts, now, serial, lf>>

----------------------------------------------------------------------------
(* WriteFlowRequests.                                                      *)

\* A FlowRequest message; start_time is the proto field, 0 when unset.
RequestMsg(f, id, np, cb, st) ==
  [ flow_id |-> f, request_id |-> id, needs_processing |-> np,
    callback_state |-> cb, start_time |-> st ]

\* Variant: the test of line 703 without the start_time alternative.
NeedsFpr_OnlyNext(r, next_requests) ==
  /\ r.needs_processing
  /\ r.flow_id \in DOMAIN next_requests
  /\ next_requests[r.flow_id] = r.request_id

\* Lines 659-660 and 698-703: a request gets a FlowProcessingRequest when it
\* is flagged needs_processing, its flow is found, and it is the flow's
\* next_request_to_process or carries a start_time.
NeedsFpr(r, next_requests) ==
  /\ r.needs_processing
  /\ r.flow_id \in DOMAIN next_requests
  /\ next_requests[r.flow_id] = r.request_id \/ r.start_time # 0

\* Lines 704-710: the FlowProcessingRequest messages of a call.
RequestFprs(requests, next_requests) ==
  LET sel == SelectSeq(requests, LAMBDA r : NeedsFpr(r, next_requests))
  IN [ i \in DOMAIN sel |->
         [ flow_id |-> sel[i].flow_id,
           delivery_time |-> IF sel[i].start_time # 0
                             THEN Some(sel[i].start_time) ELSE NULL ] ]

\* Lines 662-679: the rows of the INSERT INTO flow_requests.
RequestRows(requests) ==
  { RequestRow(requests[i].flow_id, requests[i].request_id,
               requests[i].needs_processing, requests[i].callback_state,
               IF requests[i].start_time # 0
               THEN Some(requests[i].start_time) ELSE NULL) :
      i \in DOMAIN requests }

\* Lines 722-725: the INSERT fails on a row of a flow that is not stored
\* and on a key that is stored or given twice.
RequestInsertFails(requests) ==
  \/ \E i \in DOMAIN requests : requests[i].flow_id \notin DOMAIN flows
  \/ \E i \in DOMAIN requests : \E q \in flow_requests :
       RequestKey(q) = RequestKey(requests[i])
  \/ \E i, j \in DOMAIN requests :
       i # j /\ RequestKey(requests[i]) = RequestKey(requests[j])

NoWfr == [ requests |-> <<>>, next_requests |-> <<>>, error |-> "none",
           fprs |-> {} ]

\* Variant: the FlowProcessingRequests written before the INSERT failed
\* stay.
AfterIntegrityError_KeepsWritten(before, written) == written

\* Line 725 under WithTransaction: the exception leaves the call, the
\* transaction is rolled back and the table is what it was before the call.
AfterIntegrityError(before, written) == before

\* WriteFlowRequests: one transaction.  A failed INSERT rolls back the
\* FlowProcessingRequests written before it.
WriteFlowRequests(requests) ==
  LET next_requests ==
        [ f \in DOMAIN flows |-> flows[f].next_request_to_process ]
      fprs == RequestFprs(requests, next_requests)
      tbl == WriteFlowProcessingRequestsRows(flow_processing_requests,
                                             fprs, serial)
  IN IF RequestInsertFails(requests)
     THEN /\ hist' = [hist EXCEPT !.wfr =
                        [ requests |-> requests,
                          next_requests |-> next_requests,
                          error |-> "AtLeastOneUnknownFlowError",
                          fprs |-> {} ]]
          /\ flow_processing_requests' =
               AfterIntegrityError(flow_processing_requests, tbl)
          /\ UNCHANGED <<flow_requests, serial>>
     ELSE /\ flow_processing_requests' = tbl
          /\ flow_requests' = flow_requests \cup RequestRows(requests)
          /\ serial' = IF fprs = <<>> THEN serial ELSE serial + 1
          /\ hist' = [hist EXCEPT !.wfr =
                        [ requests |-> requests,
                          next_requests |-> next_requests,
                          error |-> "none",
                          fprs |-> tbl \ flow_processing_requests ]]

----------------------------------------------------------------------------
(* Reading and deleting flow requests and their responses.                 *)

\* _DELETE_ROWS_BATCH_SIZE, scaled down.
DELETE_ROWS_BATCH_SIZE == 1

\* cursor.fetchall(): the rows of a SELECT without ORDER BY, in any order.
FetchAll(rows) ==
  { order \in [1..Cardinality(rows) -> rows] :
      \A i, j \in DOMAIN order : i # j => order[i] # order[j] }

\* Variant: the requests as the SELECT returned them.
SortedByRequestId_FetchOrder(requests) == requests

\* Line 1195: sorted(requests, key=lambda r: r.request_id).
SortedByRequestId(requests) ==
  SortSeq(requests, LAMBDA a, b : a.request_id < b.request_id)

\* Lines 1292-1294: sorted(responses, key=lambda r: r.response_id).
SortedByResponseId(responses) ==
  SortSeq(responses, LAMBDA a, b : a.response_id < b.response_id)

\* Lines 1176-1192: responses.setdefault(request_id, {})[response_id] of the
\* fetched responses, and responses.get(request_id, {}).
ResponsesDict(fetched, request_id) ==
  LET of == SelectSeq(fetched, LAMBDA r : r.request_id = request_id)
  IN [ id \in { of[i].response_id : i \in DOMAIN of } |->
         CHOOSE r \in { of[i] : i \in DOMAIN of } : r.response_id = id ]

\* ReadAllFlowRequestsAndResponses, lines 1123-1197: one read-only
\* transaction of two SELECTs; the requests sorted by request_id, each with
\* the dictionary of its responses.
ReadAllFlowRequestsAndResponses(f) ==
  /\ \E requests \in FetchAll({ q \in flow_requests : q.flow_id = f }),
        responses \in FetchAll({ r \in flow_responses : r.flow_id = f }) :
       LET sorted == SortedByRequestId(requests)
       IN hist' = [hist EXCEPT !.ret =
            [ op |-> "ReadAllFlowRequestsAndResponses", who |-> "none",
              arg |-> f,
              result |-> [ i \in DOMAIN sorted |->
                             << sorted[i],
                                ResponsesDict(responses,
                                              sorted[i].request_id) >> ],
              error |-> "none" ]]
  /\ UNCHANGED <<loops, lq, flows, flow_requests, flow_responses,
                 flow_processing_requests, message_handler_requests,
                 hunts, now, serial, wr, lf>>

\* ReadFlowRequests, lines 1220-1297: one read-only transaction of two
\* SELECTs; a dictionary from request_id to the request and the list of its
\* responses, sorted by response_id.
ReadFlowRequests(f) ==
  /\ \E responses \in FetchAll({ r \in flow_responses : r.flow_id = f }) :
       LET requests == { q \in flow_requests : q.flow_id = f }
       IN hist' = [hist EXCEPT !.ret =
            [ op |-> "ReadFlowRequests", who |-> "none", arg |-> f,
              result |-> [ id \in { q.request_id : q \in requests } |->
                << CHOOSE q \in requests : q.request_id = id,
                   SortedByResponseId(
                     SelectSeq(responses,
                               LAMBDA r : r.request_id = id)) >> ],
              error |-> "none" ]]
  /\ UNCHANGED <<loops, lq, flows, flow_requests, flow_responses,
                 flow_processing_requests, message_handler_requests,
                 hunts, now, serial, wr, lf>>

\* Variant: only the responses of the flow are deleted.
DeleteAllOfFlow_ResponsesOnly(tables, f) ==
  [ requests |-> tables.requests,
    responses |-> { r \in tables.responses : r.flow_id # f } ]

\* Lines 1211-1215: DELETE FROM flow_responses, then DELETE FROM
\* flow_requests, WHERE client_id and flow_id are those given.
DeleteAllOfFlow(tables, f) ==
  LET res_query == { r \in tables.responses : r.flow_id # f }
      req_query == { q \in tables.requests : q.flow_id # f }
  IN [ requests |-> req_query, responses |-> res_query ]

\* DeleteAllFlowRequestsAndResponses, lines 1202-1215: one transaction.
\* The history keeps how many responses and requests the statements
\* deleted.
DeleteAllFlowRequestsAndResponses(f) ==
  LET after == DeleteAllOfFlow([ requests |-> flow_requests,
                                 responses |-> flow_responses ], f)
  IN /\ flow_requests' = after.requests
     /\ flow_responses' = after.responses
     /\ hist' = [hist EXCEPT !.ret =
          [ op |-> "DeleteAllFlowRequestsAndResponses", who |-> "none",
            arg |-> f,
            result |-> << Cardinality(flow_responses \ after.responses),
                          Cardinality(flow_requests \ after.requests) >>,
            error |-> "none" ]]
     /\ UNCHANGED <<loops, lq, flows, flow_processing_requests,
                    message_handler_requests, hunts, now, serial, wr, lf>>

\* Variant: the requests of the batch are deleted and their responses
\* stay.
DeleteBatch_RequestsOnly(tables, batch) ==
  LET keys == { RequestKey(batch[i]) : i \in DOMAIN batch }
  IN [ requests |-> { q \in tables.requests : RequestKey(q) \notin keys },
       responses |-> tables.responses ]

\* Lines 1099-1118, one batch: response_query is executed, then
\* request_query, each WHERE (client_id, flow_id, request_id) IN the keys.
DeleteBatch(tables, batch) ==
  LET keys == { RequestKey(batch[i]) : i \in DOMAIN batch }
      response_query ==
        { r \in tables.responses : <<r.flow_id, r.request_id>> \notin keys }
      request_query ==
        { q \in tables.requests : RequestKey(q) \notin keys }
  IN [ requests |-> request_query, responses |-> response_query ]

\* Line 1094: for batch in collection.Batch(requests, ...).
RECURSIVE DeleteBatches(_, _)
DeleteBatches(tables, batches) ==
  IF batches = <<>> THEN tables
  ELSE DeleteBatches(DeleteBatch(tables, Head(batches)), Tail(batches))

\* DeleteFlowRequests, lines 1083-1118: nothing is run for no request; else
\* the batches are deleted in one transaction.  The history keeps how many
\* responses and requests the statements deleted.
DeleteFlowRequests(requests) ==
  LET after == DeleteBatches([ requests |-> flow_requests,
                               responses |-> flow_responses ],
                             Batch(requests, DELETE_ROWS_BATCH_SIZE))
  IN /\ flow_requests' = after.requests
     /\ flow_responses' = after.responses
     /\ hist' = [hist EXCEPT !.ret =
          [ op |-> "DeleteFlowRequests", who |-> "none",
            arg |-> requests,
            result |-> << Cardinality(flow_responses \ after.responses),
                          Cardinality(flow_requests \ after.requests) >>,
            error |-> "none" ]]
     /\ UNCHANGED <<loops, lq, flows, flow_processing_requests,
                    message_handler_requests, hunts, now, serial, wr, lf>>

----------------------------------------------------------------------------
(* LeaseFlowForProcessing.                                                 *)

\* A worker's call: idle, or between its SELECT and its UPDATE with the
\* clock value it captured and the deadline it computed.
LfIdle ==
  [ pc |-> "idle", flow_id |-> "none", now |-> 0, processing_deadline |-> 0 ]

\* models_hunts.IsHuntSuitableForFlowProcessing: a hunt that runs.
IsHuntSuitableForFlowProcessing(hunt_state) == hunt_state = "STARTED"

\* Variant: a lease that never runs out.
AlreadyBeingProcessed_NoDeadline(row, t) ==
  /\ row.processing_on # NULL
  /\ Val(row.processing_on) # ""

\* Line 479: flow.processing_on and flow.processing_deadline > int(now).
\* An unset proto field reads as "" or 0.
AlreadyBeingProcessed(row, t) ==
  /\ row.processing_on # NULL
  /\ Val(row.processing_on) # ""
  /\ (IF row.processing_deadline = NULL THEN 0
      ELSE Val(row.processing_deadline)) > t

\* Variant: the state of the parent hunt is not looked at.
ParentHuntIsNotRunning_NotChecked(row) == FALSE

\* Lines 485-498: the flow has a parent hunt, the hunt is stored with a
\* state, and the state is not suitable.
ParentHuntIsNotRunning(row) ==
  /\ row.parent_hunt_id # NULL
  /\ Val(row.parent_hunt_id) \in DOMAIN hunts
  /\ hunts[Val(row.parent_hunt_id)] # NULL
  /\ ~IsHuntSuitableForFlowProcessing(Val(hunts[Val(row.parent_hunt_id)]))

\* The error the reading half of LeaseFlowForProcessing raises, if any.
LeaseError(f, t) ==
  IF f \notin DOMAIN flows THEN "UnknownFlowError"
  ELSE IF AlreadyBeingProcessed(flows[f], t) THEN "ValueError"
  ELSE IF ParentHuntIsNotRunning(flows[f])
       THEN "ParentHuntIsNotRunningError"
  ELSE "none"

\* Lines 463-498: a plain SELECT of the flow row (it takes no lock), the
\* clock is read, the checks are made.  A raised error ends the call and
\* rolls back a transaction that wrote nothing.
LeaseFlowForProcessing_Read(w, f, processing_time) ==
  /\ lf[w].pc = "idle"
  /\ LET error == LeaseError(f, now)
     IN /\ lf' = IF error = "none"
                 THEN [lf EXCEPT ![w] =
                         [ pc |-> "update", flow_id |-> f, now |-> now,
                           processing_deadline |-> now + processing_time ]]
                 ELSE lf
        /\ hist' = IF error = "none" THEN hist
                   ELSE [hist EXCEPT !.ret =
                           [ op |-> "LeaseFlowForProcessing", who |-> w,
                             arg |-> [flow_id |-> f,
                                      processing_time |-> processing_time],
                             result |-> FALSE, error |-> error ]]
  /\ UNCHANGED <<loops, lq, flows, flow_requests, flow_responses,
                 flow_processing_requests, message_handler_requests,
                 hunts, now, serial, wr>>

\* Lines 500-523: the UPDATE, which has no condition on the lease columns,
\* the commit and the return of the flow with the lease of this worker.
LeaseFlowForProcessing_Update(w) ==
  /\ lf[w].pc = "update"
  /\ FlowLockHolders(lf[w].flow_id) = {}
  /\ flows' = [flows EXCEPT ![lf[w].flow_id] =
       [@ EXCEPT !.processing_on = Some(w),
                 !.processing_since = Some(lf[w].now),
                 !.processing_deadline = Some(lf[w].processing_deadline)]]
  /\ lf' = [lf EXCEPT ![w] = LfIdle]
  /\ hist' = [hist EXCEPT
       !.ret = [ op |-> "LeaseFlowForProcessing", who |-> w,
                 arg |-> [flow_id |-> lf[w].flow_id,
                          processing_time |->
                            lf[w].processing_deadline - lf[w].now],
                 result |-> TRUE, error |-> "none" ],
       !.lease[w] = Some([flow_id |-> lf[w].flow_id,
                          processing_deadline |->
                            lf[w].processing_deadline])]
  /\ UNCHANGED <<loops, lq, flow_requests, flow_responses, flow_processing_requests,
                 message_handler_requests, hunts, now, serial, wr>>

\* The hunt of the flow is stopped by its owner.
StopHunt(h) ==
  /\ h \in DOMAIN hunts
  /\ hunts[h] = Some("STARTED")
  /\ hunts' = [hunts EXCEPT ![h] = Some("STOPPED")]
  /\ UNCHANGED <<loops, lq, flows, flow_requests, flow_responses,
                 flow_processing_requests, message_handler_requests,
                 now, serial, wr, lf, hist>>

----------------------------------------------------------------------------
(* ReleaseProcessedFlow.                                                   *)

\* A flows_pb2.Flow as a worker hands it back.
FlowObj(f, next, payload, state, acct) ==
  [ flow_id |-> f, next_request_to_process |-> next, flow |-> payload,
    flow_state |-> state,
    user_cpu_time_used_micros |-> acct, system_cpu_time_used_micros |-> acct,
    network_bytes_sent |-> acct, num_replies_sent |-> acct ]

\* Variant: a marked request blocks whatever its start_time.
ReleaseBlockers_AnyStartTime(flow_obj, t) ==
  { q \in flow_requests :
      /\ q.flow_id = flow_obj.flow_id
      /\ q.request_id = flow_obj.next_request_to_process
      /\ q.needs_processing }

\* Variant: looks at the request the stored row names as next.
ReleaseBlockers_StoredNext(flow_obj, t) ==
  { q \in flow_requests :
      /\ q.flow_id = flow_obj.flow_id
      /\ flow_obj.flow_id \in DOMAIN flows
      /\ q.request_id = flows[flow_obj.flow_id].next_request_to_process
      /\ (q.start_time = NULL \/ SqlLt(q.start_time, t))
      /\ q.needs_processing }

\* The derived table of the UPDATE, lines 1313-1320: the stored requests of
\* the flow with request_id = next_request_to_process of the flow object
\* that are marked and whose start_time is NULL or has passed.
ReleaseBlockers(flow_obj, t) ==
  { q \in flow_requests :
      /\ q.flow_id = flow_obj.flow_id
      /\ q.request_id = flow_obj.next_request_to_process
      /\ (q.start_time = NULL \/ SqlLt(q.start_time, t))
      /\ q.needs_processing }

\* The SET clause, lines 1325-1336.
ReleasedRow(row, flow_obj, t) ==
  [ row EXCEPT
      !.flow = flow_obj.flow,
      !.processing_on = NULL,
      !.processing_since = NULL,
      !.processing_deadline = NULL,
      !.next_request_to_process = flow_obj.next_request_to_process,
      !.flow_state = flow_obj.flow_state,
      !.user_cpu_time_used_micros = flow_obj.user_cpu_time_used_micros,
      !.system_cpu_time_used_micros = flow_obj.system_cpu_time_used_micros,
      !.network_bytes_sent = flow_obj.network_bytes_sent,
      !.num_replies_sent = flow_obj.num_replies_sent,
      !.last_update = t ]

\* ReleaseProcessedFlow: one UPDATE of the flows row joined with the derived
\* table.  The UPDATE needs the row's lock, so it waits for a transaction
\* that holds it FOR UPDATE.  Returns rows_updated == 1.
ReleaseProcessedFlow(w, flow_obj) ==
  /\ FlowLockHolders(flow_obj.flow_id) = {}
  /\ LET applies == /\ flow_obj.flow_id \in DOMAIN flows
                    /\ ReleaseBlockers(flow_obj, now) = {}
     IN /\ flows' = IF applies
                    THEN [flows EXCEPT ![flow_obj.flow_id] =
                            ReleasedRow(@, flow_obj, now)]
                    ELSE flows
        /\ hist' = [hist EXCEPT
             !.ret = [ op |-> "ReleaseProcessedFlow", who |-> w,
                       arg |-> flow_obj, result |-> applies,
                       error |-> "none" ],
             !.lease[w] = IF applies THEN NULL ELSE @]
  /\ UNCHANGED <<loops, lq, flow_requests, flow_responses, flow_processing_requests,
                 message_handler_requests, hunts, now, serial, wr, lf>>

----------------------------------------------------------------------------
(* WriteFlowObject and UpdateFlow.                                         *)

\* Variant: the update on a duplicate key takes every column of the VALUES
\* list, as a REPLACE of the row would.
OnDuplicateKey_AllColumns(row, flow_obj, allow_update, t) ==
  IF allow_update
  THEN Some([ row EXCEPT
                !.flow = flow_obj.flow,
                !.flow_state = flow_obj.flow_state,
                !.next_request_to_process = flow_obj.next_request_to_process,
                !.user_cpu_time_used_micros =
                   flow_obj.user_cpu_time_used_micros,
                !.system_cpu_time_used_micros =
                   flow_obj.system_cpu_time_used_micros,
                !.network_bytes_sent = flow_obj.network_bytes_sent,
                !.num_replies_sent = flow_obj.num_replies_sent,
                !.processing_on = NULL,
                !.processing_since = NULL,
                !.processing_deadline = NULL,
                !.last_update = t ])
  ELSE NULL

\* Variant: the INSERT always carries ON DUPLICATE KEY UPDATE.
OnDuplicateKey_AlwaysUpdates(row, flow_obj, allow_update, t) ==
  Some([ row EXCEPT
           !.flow = flow_obj.flow,
           !.flow_state = flow_obj.flow_state,
           !.next_request_to_process = flow_obj.next_request_to_process,
           !.last_update = t ])

\* Lines 231-237 and 272-278: with allow_update the INSERT of a stored key
\* updates flow, flow_state, next_request_to_process and last_update;
\* without, it fails with DUP_ENTRY (NULL here).
OnDuplicateKey(row, flow_obj, allow_update, t) ==
  IF allow_update
  THEN Some([ row EXCEPT
                !.flow = flow_obj.flow,
                !.flow_state = flow_obj.flow_state,
                !.next_request_to_process = flow_obj.next_request_to_process,
                !.last_update = t ])
  ELSE NULL

\* Lines 220-270: the row the INSERT stores.  The flow objects of the model
\* have no parent hunt, and the client of the flow is stored.
InsertedRow(flow_obj, t) ==
  [ FlowRow(flow_obj.next_request_to_process, flow_obj.flow,
            flow_obj.flow_state, 0, NULL) EXCEPT
      !.user_cpu_time_used_micros = flow_obj.user_cpu_time_used_micros,
      !.system_cpu_time_used_micros = flow_obj.system_cpu_time_used_micros,
      !.network_bytes_sent = flow_obj.network_bytes_sent,
      !.num_replies_sent = flow_obj.num_replies_sent,
      !.last_update = t ]

\* WriteFlowObject: one INSERT in one transaction.
WriteFlowObject(flow_obj, allow_update) ==
  LET f == flow_obj.flow_id
      dup == IF f \in DOMAIN flows
             THEN OnDuplicateKey(flows[f], flow_obj, allow_update, now)
             ELSE NULL
      error == IF f \in DOMAIN flows /\ dup = NULL
               THEN "FlowExistsError" ELSE "none"
  IN /\ f \in DOMAIN flows => FlowLockHolders(f) = {}
     /\ flows' = IF error # "none" THEN flows
                 ELSE [ g \in DOMAIN flows \cup {f} |->
                          IF g # f THEN flows[g]
                          ELSE IF f \in DOMAIN flows THEN Val(dup)
                          ELSE InsertedRow(flow_obj, now) ]
     /\ hist' = [hist EXCEPT !.ret =
          [ op |-> "WriteFlowObject", who |-> "none",
            arg |-> [flow_obj |-> flow_obj, allow_update |-> allow_update],
            result |-> error = "none", error |-> error ]]
     /\ UNCHANGED <<loops, lq, flow_requests, flow_responses,
                    flow_processing_requests, message_handler_requests,
                    hunts, now, serial, wr, lf>>

\* The arguments of UpdateFlow: <<>> is db.Database.UNCHANGED, <<v>> is the
\* value v, which is NULL for None.
UpdateArgs(flow_obj, flow_state, crash_info, on, since, deadline) ==
  [ flow_obj |-> flow_obj, flow_state |-> flow_state,
    client_crash_info |-> crash_info,
    processing_on |-> on,
    processing_since |-> since,
    processing_deadline |-> deadline ]

\* Variant: a flow object also sets next_request_to_process.
FlowObjColumns_WithNext(row, o) ==
  [ row EXCEPT
      !.flow = o.flow,
      !.flow_state = o.flow_state,
      !.next_request_to_process = o.next_request_to_process,
      !.user_cpu_time_used_micros = o.user_cpu_time_used_micros,
      !.system_cpu_time_used_micros = o.system_cpu_time_used_micros,
      !.network_bytes_sent = o.network_bytes_sent,
      !.num_replies_sent = o.num_replies_sent ]

\* Lines 558-574: the columns a flow object is written to.
FlowObjColumns(row, o) ==
  [ row EXCEPT
      !.flow = o.flow,
      !.flow_state = o.flow_state,
      !.user_cpu_time_used_micros = o.user_cpu_time_used_micros,
      !.system_cpu_time_used_micros = o.system_cpu_time_used_micros,
      !.network_bytes_sent = o.network_bytes_sent,
      !.num_replies_sent = o.num_replies_sent ]

\* Lines 558-598: the SET clause, in the order the assignments are
\* appended; a later assignment of a column wins.
UpdatedRow(row, a, t) ==
  LET r1 == IF a.flow_obj = <<>> THEN row
            ELSE FlowObjColumns(row, a.flow_obj[1])
      r2 == IF a.flow_state = <<>> THEN r1
            ELSE [r1 EXCEPT !.flow_state = a.flow_state[1]]
      r3 == IF a.client_crash_info = <<>> THEN r2
            ELSE [r2 EXCEPT !.client_crash_info = Some(a.client_crash_info[1])]
      r4 == IF a.processing_on = <<>> THEN r3
            ELSE [r3 EXCEPT !.processing_on = a.processing_on[1]]
      r5 == IF a.processing_since = <<>> THEN r4
            ELSE [r4 EXCEPT !.processing_since = a.processing_since[1]]
      r6 == IF a.processing_deadline = <<>> THEN r5
            ELSE [r5 EXCEPT !.processing_deadline = a.processing_deadline[1]]
  IN [r6 EXCEPT !.last_update = t]

\* Variant: the UPDATE is run, and its row count tested, also when no
\* argument is given.
NoUpdates_AlwaysRuns(a) == FALSE

\* Lines 600-601, if not updates: no argument holds a value to write.
NoUpdates(a) ==
  /\ a.flow_obj = <<>>
  /\ a.flow_state = <<>>
  /\ a.client_crash_info = <<>>
  /\ a.processing_on = <<>>
  /\ a.processing_since = <<>>
  /\ a.processing_deadline = <<>>

\* UpdateFlow: without updates it returns; else one UPDATE by key, whose
\* last_update = NOW(6) makes every matched row a changed row, and
\* UnknownFlowError when it changed none.
UpdateFlow(f, a) ==
  LET error == IF NoUpdates(a) THEN "none"
               ELSE IF f \notin DOMAIN flows THEN "UnknownFlowError"
               ELSE "none"
      writes == ~NoUpdates(a) /\ f \in DOMAIN flows
  IN /\ writes => FlowLockHolders(f) = {}
     /\ flows' = IF writes
                 THEN [flows EXCEPT ![f] = UpdatedRow(@, a, now)]
                 ELSE flows
     /\ hist' = [hist EXCEPT !.ret =
          [ op |-> "UpdateFlow", who |-> "none",
            arg |-> [flow_id |-> f, args |-> a],
            result |-> error = "none", error |-> error ]]
     /\ UNCHANGED <<loops, lq, flow_requests, flow_responses,
                    flow_processing_requests, message_handler_requests,
                    hunts, now, serial, wr, lf>>

\* Time passes.
Tick ==
  /\ now < MaxNow
  /\ now' = now + 1
  /\ UNCHANGED <<loops, lq, flows, flow_requests, flow_responses,
                 flow_processing_requests, message_handler_requests,
                 hunts, serial, wr, lf, hist>>

----------------------------------------------------------------------------
(* The leased queues: _LeaseFlowProcessingRequests and                     *)
(* _LeaseMessageHandlerRequests.  A Lease call is one transaction of two   *)
(* statements: the UPDATE stamps rows and keeps them locked, the SELECT    *)
(* reads back the rows that carry the stamp, then the call commits.        *)

\* The 10 minutes of a FlowProcessingRequest lease, in clock steps.
FPR_LEASE_TIME == 1

\* The values random.UInt16() draws from, scaled down.
Salts == {0, 1}

Min(a, b) == IF a < b THEN a ELSE b

\* A row of message_handler_requests as WriteMessageHandlerRequests
\* inserts it.
MessageHandlerRow(h, id, ts) ==
  [ handlername |-> h, request_id |-> id, timestamp |-> ts,
    leased_until |-> NULL, leased_by |-> NULL ]

\* What tells a row of a queue apart from the others.
FprKey(r) == r.rowid

MhKey(r) == <<r.handlername, r.request_id>>

LqIdle ==
  [ pc |-> "idle", queue |-> "none", id_str |-> <<>>, now |-> 0,
    expiry |-> 0, limit |-> 0, eligible |-> {}, stamped |-> {} ]

\* The rows an UPDATE of a Lease call in flight holds locked.
LockedKeys(queue) ==
  UNION { lq[w].stamped : w \in { v \in Workers : lq[v].queue = queue } }

\* Variant: a row is eligible whatever its lease.
MhEligible_IgnoringLease(t) ==
  { r \in message_handler_requests : TRUE }

\* WHERE leased_until IS NULL OR leased_until < now, lines 181-182.
MhEligible(t) ==
  { r \in message_handler_requests :
      r.leased_until = NULL \/ SqlLt(r.leased_until, t) }

\* Variant: delivery_time is not looked at.
FprEligible_IgnoringDelivery(t) ==
  { r \in flow_processing_requests :
      r.leased_until = NULL \/ SqlLt(r.leased_until, t) }

\* WHERE (delivery_time IS NULL OR delivery_time <= NOW(6)) AND
\* (leased_until IS NULL OR leased_until < NOW(6)), lines 1457-1461.
FprEligible(t) ==
  { r \in flow_processing_requests :
      /\ r.delivery_time = NULL \/ SqlLe(r.delivery_time, t)
      /\ r.leased_until = NULL \/ SqlLt(r.leased_until, t) }

\* SET leased_until = expiry, leased_by = id on these rows of the table.
Stamp(tbl, rows, id_str, expiry) ==
  { IF r \in rows
    THEN [r EXCEPT !.leased_until = Some(expiry), !.leased_by = Some(id_str)]
    ELSE r : r \in tbl }

\* WHERE leased_by = id AND leased_until = expiry.
Stamped(tbl, id_str, expiry) ==
  { r \in tbl : SqlEq(r.leased_by, id_str) /\ SqlEq(r.leased_until, expiry) }

\* The UPDATE ... LIMIT of a Lease call: it stamps min(limit, eligible)
\* of the eligible rows, whichever the scan meets first, and waits when it
\* meets a row another transaction holds locked.  With nothing updated the
\* call returns [].
LeaseUpdate(w, queue, keys, id_str, expiry, limit) ==
  /\ lq[w].pc = "idle"
  /\ \E S \in SUBSET keys :
       /\ Cardinality(S) = Min(limit, Cardinality(keys))
       /\ S \cap LockedKeys(queue) = {}
       /\ IF S = {}
          THEN /\ lq' = lq
               /\ hist' = [hist EXCEPT !.lret =
                    [ queue |-> queue, who |-> w, at |-> now,
                      limit |-> limit, eligible |-> keys, stamped |-> {}, returned |-> {},
                      barred |-> {}, clash |-> FALSE ]]
          ELSE /\ lq' = [lq EXCEPT ![w] =
                    [ pc |-> "select", queue |-> queue, id_str |-> id_str,
                      now |-> now, expiry |-> expiry, limit |-> limit,
                      eligible |-> keys, stamped |-> S ]]
               /\ hist' = hist
  /\ UNCHANGED <<loops, flows, flow_requests, flow_responses,
                 flow_processing_requests, message_handler_requests,
                 hunts, now, serial, wr, lf>>

\* What the call hands back and what the history keeps of it: the leases
\* the worker now holds and the items that were under a returned lease,
\* not yet passed, when the call was made.
LeaseReturn(w, returned, others) ==
  [hist EXCEPT
     !.lret = [ queue |-> lq[w].queue, who |-> w, at |-> lq[w].now,
                limit |-> lq[w].limit,
                eligible |-> lq[w].eligible, stamped |-> lq[w].stamped,
                returned |-> returned,
                barred |-> { h.key : h \in { g \in hist.held :
                                 /\ g.queue = lq[w].queue
                                 /\ g.leased_until >= lq[w].now } },
                clash |-> others # {} ],
     !.held = { h \in @ : ~(/\ h.queue = lq[w].queue
                              /\ h.who = w
                              /\ h.key \in returned) } \cup
              { [ queue |-> lq[w].queue, who |-> w, key |-> k,
                  leased_until |-> lq[w].expiry ] : k \in returned }]

\* _LeaseMessageHandlerRequests, lines 173-190: the stamp is the process
\* id and now + lease_time.
LeaseMessageHandlerRequests_Update(w, lease_time, limit) ==
  LeaseUpdate(w, "message_handler_requests",
              { MhKey(r) : r \in MhEligible(now) },
              w, now + lease_time, limit)

\* Lines 192-206: SELECT ... WHERE leased_by AND leased_until LIMIT updated,
\* in the order the scan yields; commit.
LeaseMessageHandlerRequests_Select(w) ==
  /\ lq[w].pc = "select"
  /\ lq[w].queue = "message_handler_requests"
  /\ LET tbl == Stamp(message_handler_requests,
                      { r \in message_handler_requests :
                          MhKey(r) \in lq[w].stamped },
                      lq[w].id_str, lq[w].expiry)
         found == { MhKey(r) : r \in Stamped(tbl, lq[w].id_str, lq[w].expiry) }
     IN \E R \in SUBSET found :
          /\ Cardinality(R) = Min(Cardinality(lq[w].stamped),
                                  Cardinality(found))
          /\ message_handler_requests' = tbl
          /\ hist' = LeaseReturn(w, R, found \ lq[w].stamped)
  /\ lq' = [lq EXCEPT ![w] = LqIdle]
  /\ UNCHANGED <<loops, flows, flow_requests, flow_responses,
                 flow_processing_requests, hunts, now, serial, wr, lf>>

\* _LeaseFlowProcessingRequests, lines 1451-1477: the stamp is the process
\* id with a random 16-bit number and now + 10 minutes.
LeaseFlowProcessingRequests_Update(w, salt, limit) ==
  LeaseUpdate(w, "flow_processing_requests",
              { FprKey(r) : r \in FprEligible(now) },
              <<w, salt>>, now + FPR_LEASE_TIME, limit)

\* Lines 1479-1506: the SELECT by lease stamp, LIMIT updated; commit.
LeaseFlowProcessingRequests_Select(w) ==
  /\ lq[w].pc = "select"
  /\ lq[w].queue = "flow_processing_requests"
  /\ LET tbl == Stamp(flow_processing_requests,
                      { r \in flow_processing_requests :
                          FprKey(r) \in lq[w].stamped },
                      lq[w].id_str, lq[w].expiry)
         found == { FprKey(r) : r \in Stamped(tbl, lq[w].id_str, lq[w].expiry) }
     IN \E R \in SUBSET found :
          /\ Cardinality(R) = Min(Cardinality(lq[w].stamped),
                                  Cardinality(found))
          /\ flow_processing_requests' = tbl
          /\ hist' = LeaseReturn(w, R, found \ lq[w].stamped)
  /\ lq' = [lq EXCEPT ![w] = LqIdle]
  /\ UNCHANGED <<loops, flows, flow_requests, flow_responses,
                 message_handler_requests, hunts, now, serial, wr, lf>>

\* No Lease call has returned yet.
NoLease ==
  [ queue |-> "none", who |-> "none", at |-> 0, limit |-> 0,
    eligible |-> {},
    stamped |-> {}, returned |-> {}, barred |-> {}, clash |-> FALSE ]

----------------------------------------------------------------------------
(* The dispatch loops and their registration.                              *)

\* The process whose loops run leases as this worker.
Self == "w1"

\* max_threads of flow_processing_request_handler_pool.
PoolSize == 1

\* The loop threads a process has room for.
MaxThreads == 2

\* The handler callbacks; "none" is a handler argument that is not set.
Callbacks == {"h1", "h2"}

NoCall ==
  [ pc |-> "idle", op |-> "none", handler |-> "none", lease_time |-> 0,
    limit |-> 0, timeout |-> FALSE ]

\* The attributes of the database object for one queue: the stop flag, the
\* thread reference, the live threads, the Register or Unregister call in
\* flight, the tasks in the handler pool and whether the pool is started;
\* registered, errored, joined and result, the way the last call ended,
\* are observations.
LoopsInit(queue) ==
  [ queue |-> queue, stop |-> FALSE, thread |-> NULL, live |-> {},
    call |-> NoCall, tasks |-> {}, pool |-> FALSE,
    registered |-> "none", errored |-> FALSE, joined |-> FALSE,
    result |-> "none" ]

\* threading.Thread(target=loop, args=(handler, lease_time, limit)).
LoopThread(tid, handler, lease_time, limit) ==
  [ tid |-> tid, handler |-> handler, lease_time |-> lease_time,
    limit |-> limit, pc |-> "test", msgs |-> {}, caught |-> FALSE ]

\* Where the target of the thread begins: the loop of the flow processing
\* queue starts its pool first, line 1514.
FirstStep(queue) ==
  IF queue = "flow_processing_requests" THEN "start" ELSE "test"

\* Thread.is_alive().
IsAlive(tid) == \E t \in loops.live : t.tid = tid

\* Variant: join comes back while the thread runs.
ThreadJoined_NoWait == TRUE

\* Thread.join() has come back because the thread has ended.
ThreadJoined == ~IsAlive(Val(loops.thread))

\* Lines 121-129 and 1546-1552: with a handler, clear the stop flag, then
\* create and start the loop thread.
StartLoop(l, handler, lease_time, limit) ==
  IF handler = "none"
  THEN [l EXCEPT !.registered = "none", !.call = NoCall,
                 !.result = "returned"]
  ELSE LET free == { i \in 1..MaxThreads : \A t \in l.live : t.tid # i }
           tid == CHOOSE i \in free : \A j \in free : i <= j
       IN [l EXCEPT !.stop = FALSE,
                    !.thread = Some(tid),
                    !.live = @ \cup
                      {[LoopThread(tid, handler, lease_time, limit)
                          EXCEPT !.pc = FirstStep(l.queue)]},
                    !.registered = handler,
                    !.call = NoCall,
                    !.result = "returned"]

\* A Register call up to the join inside its Unregister call.
RegisterCall(queue, handler, lease_time, limit) ==
  /\ loops.queue = queue
  /\ loops.call.pc = "idle"
  /\ handler = "none" \/ Cardinality(loops.live) < MaxThreads
  /\ loops' =
       IF loops.thread = NULL
       THEN StartLoop(loops, handler, lease_time, limit)
       ELSE [loops EXCEPT !.stop = TRUE,
                          !.call = [ pc |-> "join", op |-> "Register",
                                     handler |-> handler,
                                     lease_time |-> lease_time,
                                     limit |-> limit, timeout |-> FALSE ]]
  /\ UNCHANGED <<flows, flow_requests, flow_responses,
                 flow_processing_requests, message_handler_requests,
                 hunts, now, serial, wr, lf, lq, hist>>

\* An Unregister call up to its join: with a thread reference it sets the
\* stop flag and joins, with a timeout or without.
UnregisterCall(queue, timeout) ==
  /\ loops.queue = queue
  /\ loops.call.pc = "idle"
  /\ loops.thread # NULL
  /\ loops' = [loops EXCEPT !.stop = TRUE,
                            !.call = [NoCall EXCEPT !.pc = "join",
                                                    !.op = "Unregister",
                                                    !.timeout = timeout]]
  /\ UNCHANGED <<flows, flow_requests, flow_responses,
                 flow_processing_requests, message_handler_requests,
                 hunts, now, serial, wr, lf, lq, hist>>

\* RegisterMessageHandler, lines 112-129.
RegisterMessageHandler(handler, lease_time, limit) ==
  RegisterCall("message_handler_requests", handler, lease_time, limit)

\* UnregisterMessageHandler, lines 131-137.
UnregisterMessageHandler(timeout) ==
  UnregisterCall("message_handler_requests", timeout)

\* RegisterFlowProcessingHandler, lines 1538-1552.
RegisterFlowProcessingHandler(handler) ==
  RegisterCall("flow_processing_requests", handler, 0, 0)

\* UnregisterFlowProcessingHandler, lines 1554-1560.
UnregisterFlowProcessingHandler(timeout) ==
  UnregisterCall("flow_processing_requests", timeout)

\* Lines 137-140 and 1560-1563: join has come back and the thread is not
\* alive; the reference is dropped, and a Register call goes on to start
\* the new loop.
Unregister_Joined ==
  /\ loops.call.pc = "join"
  /\ ThreadJoined
  /\ loops' =
       IF loops.call.op = "Register"
       THEN StartLoop([loops EXCEPT !.thread = NULL, !.joined = TRUE],
                      loops.call.handler, loops.call.lease_time,
                      loops.call.limit)
       ELSE [loops EXCEPT !.thread = NULL, !.registered = "none",
                          !.call = NoCall, !.result = "returned"]
  /\ UNCHANGED <<flows, flow_requests, flow_responses,
                 flow_processing_requests, message_handler_requests,
                 hunts, now, serial, wr, lf, lq, hist>>

\* Variant: the call that times out drops the thread reference.
AfterTimeout_DropsReference(l) ==
  [l EXCEPT !.call = NoCall, !.errored = TRUE, !.result = "RuntimeError",
            !.thread = NULL]

\* Lines 138-139 and 1561-1562: the raise comes before the reference is
\* cleared and nothing resets the stop flag.
AfterTimeout(l) ==
  [l EXCEPT !.call = NoCall, !.errored = TRUE, !.result = "RuntimeError"]

\* Lines 137-139 and 1560-1562: join(timeout) has come back and the thread
\* is alive: RuntimeError.  The stop flag stays set and the reference stays.
Unregister_TimedOut ==
  /\ loops.call.pc = "join"
  /\ loops.call.timeout
  /\ IsAlive(Val(loops.thread))
  /\ loops' = AfterTimeout(loops)
  /\ UNCHANGED <<flows, flow_requests, flow_responses,
                 flow_processing_requests, message_handler_requests,
                 hunts, now, serial, wr, lf, lq, hist>>

\* The threads after thread t has become the threads of set new.
SetThread(t, new) == [loops EXCEPT !.live = (@ \ {t}) \cup new]

\* Variant: an exception ends the loop thread.
AfterException_Dies(t) == {}

\* except Exception: the exception is logged and the loop goes on to test
\* the stop flag, lines 158-159 and 1532-1534.
AfterException(t) ==
  { [t EXCEPT !.pc = "test", !.msgs = {}, !.caught = TRUE] }

\* DeleteMessageHandlerRequests: DELETE ... WHERE request_id IN (...).
DeleteMessageHandlerRequestsRows(tbl, keys) ==
  { r \in tbl : \A k \in keys : r.request_id # k[2] }

\* DeleteMessageHandlerRequests, lines 99-110: one DELETE in one
\* transaction, which waits for the rows a Lease call holds locked.  The
\* requests are <<handler_name, request_id>> pairs.
DeleteMessageHandlerRequests(requests) ==
  LET tbl == DeleteMessageHandlerRequestsRows(message_handler_requests,
                                              requests)
  IN /\ { MhKey(r) : r \in message_handler_requests \ tbl }
          \cap LockedKeys("message_handler_requests") = {}
     /\ message_handler_requests' = tbl
     /\ hist' = [hist EXCEPT !.ret =
          [ op |-> "DeleteMessageHandlerRequests", who |-> "none",
            arg |-> requests, result |-> TRUE, error |-> "none" ]]
     /\ UNCHANGED <<loops, lq, flows, flow_requests, flow_responses,
                    flow_processing_requests, hunts, now, serial, wr, lf>>

\* WriteMessageHandlerRequests, lines 41-61: INSERT IGNORE, a request whose
\* (handlername, request_id) is stored is skipped.
WriteMessageHandlerRequests(requests) ==
  /\ message_handler_requests' =
       message_handler_requests \cup
         { MessageHandlerRow(q[1], q[2], now) :
             q \in { k \in requests :
                       \A r \in message_handler_requests : MhKey(r) # k } }
  /\ hist' = [hist EXCEPT !.ret =
       [ op |-> "WriteMessageHandlerRequests", who |-> "none",
         arg |-> requests, result |-> TRUE, error |-> "none" ]]
  /\ UNCHANGED <<loops, lq, flows, flow_requests, flow_responses,
                 flow_processing_requests, hunts, now, serial, wr, lf>>

\* mysql_utils.TimestampToMicrosecondsSinceEpoch: the creation_time a read
\* puts into a FlowProcessingRequest is the row's timestamp in microseconds.
MICROS_PER_SECOND == 1000000

TimestampToMicrosecondsSinceEpoch(timestamp) == timestamp * MICROS_PER_SECOND

\* mysql_utils.MicrosecondsSinceEpochToTimestamp with FROM_UNIXTIME: the
\* timestamp a creation_time that a read produced stands for.
MicrosecondsSinceEpochToTimestamp(micros) == micros \div MICROS_PER_SECOND

\* Variant: the DELETE matches on the flow alone.
AckFlowProcessingRequestsRows_ByFlow(tbl, requests) ==
  { r \in tbl : \A q \in requests : ~(q.flow_id = r.flow_id) }

\* AckFlowProcessingRequests: DELETE by flow_id and timestamp.
AckFlowProcessingRequestsRows(tbl, requests) ==
  { r \in tbl : \A q \in requests :
      ~(q.flow_id = r.flow_id /\ q.timestamp = r.timestamp) }

\* Lines 1420-1428: the key each request stands for in the WHERE clause.
AckConditions(requests) ==
  { [ flow_id |-> q.flow_id,
      timestamp |-> MicrosecondsSinceEpochToTimestamp(q.creation_time) ] :
      q \in requests }

\* AckFlowProcessingRequests, lines 1405-1431: nothing is run for no
\* request; else one DELETE in one transaction, which waits for the rows a
\* Lease call holds locked.
AckFlowProcessingRequests(requests) ==
  LET tbl == AckFlowProcessingRequestsRows(flow_processing_requests,
                                           AckConditions(requests))
  IN /\ { FprKey(r) : r \in flow_processing_requests \ tbl }
          \cap LockedKeys("flow_processing_requests") = {}
     /\ flow_processing_requests' =
          IF requests = {} THEN flow_processing_requests ELSE tbl
     /\ hist' = [hist EXCEPT !.ret =
          [ op |-> "AckFlowProcessingRequests", who |-> "none",
            arg |-> requests, result |-> TRUE, error |-> "none" ]]
     /\ UNCHANGED <<loops, lq, flows, flow_requests, flow_responses,
                    message_handler_requests, hunts, now, serial, wr, lf>>

\* WriteFlowProcessingRequests, lines 1367-1376: one INSERT statement; an
\* instant has one statement.
WriteFlowProcessingRequests(fprs) ==
  /\ \A r \in flow_processing_requests : r.timestamp # now
  /\ flow_processing_requests' =
       WriteFlowProcessingRequestsRows(flow_processing_requests, fprs, now)
  /\ hist' = [hist EXCEPT !.ret =
       [ op |-> "WriteFlowProcessingRequests", who |-> "none",
         arg |-> fprs, result |-> TRUE, error |-> "none" ]]
  /\ UNCHANGED <<loops, lq, flows, flow_requests, flow_responses,
                 message_handler_requests, hunts, now, serial, wr, lf>>

\* The messages a Lease call handed back, as the handler gets them.
LeasedMessages(tbl, keys) ==
  { [ key |-> FprKey(r), flow_id |-> r.flow_id, timestamp |-> r.timestamp ] :
      r \in { q \in tbl : FprKey(q) \in keys } }

\* What the history keeps of the items given to a handler.
Handed(keys) == { [ key |-> k, at |-> now ] : k \in keys }

\* _MessageHandlerLoop, line 151: while not self.handler_stop.
MessageHandlerLoop_Test(t) ==
  /\ loops.queue = "message_handler_requests"
  /\ t \in loops.live
  /\ t.pc = "test"
  /\ IF loops.stop
     THEN loops' = SetThread(t, {}) /\ hist' = hist
     ELSE /\ loops' = SetThread(t, {[t EXCEPT !.pc = "leasing"]})
          /\ hist' = [hist EXCEPT !.lret = NoLease]
  /\ UNCHANGED <<flows, flow_requests, flow_responses,
                 flow_processing_requests, message_handler_requests,
                 hunts, now, serial, wr, lf, lq>>

\* Line 153 inside the loop: the Lease call of the loop thread.
MessageHandlerLoop_LeaseUpdate(t) ==
  /\ loops.queue = "message_handler_requests"
  /\ t \in loops.live
  /\ t.pc = "leasing"
  /\ hist.lret = NoLease
  /\ LeaseMessageHandlerRequests_Update(Self, t.lease_time, t.limit)

\* Lines 153, 158-159: the Lease call raises.
MessageHandlerLoop_LeaseRaises(t) ==
  /\ loops.queue = "message_handler_requests"
  /\ t \in loops.live
  /\ t.pc = "leasing"
  /\ hist.lret = NoLease
  /\ lq[Self].pc = "idle"
  /\ loops' = SetThread(t, AfterException(t))
  /\ UNCHANGED <<flows, flow_requests, flow_responses,
                 flow_processing_requests, message_handler_requests,
                 hunts, now, serial, wr, lf, lq, hist>>

\* Lines 153-157: the Lease call has returned; with messages the handler
\* is called, without the loop sleeps.
MessageHandlerLoop_Leased(t) ==
  /\ loops.queue = "message_handler_requests"
  /\ t \in loops.live
  /\ t.pc = "leasing"
  /\ hist.lret.queue = "message_handler_requests"
  /\ lq[Self].pc = "idle"
  /\ LET msgs == hist.lret.returned
     IN /\ loops' = SetThread(t,
             {[t EXCEPT !.pc = IF msgs = {} THEN "sleep" ELSE "handle",
                        !.msgs = msgs]})
        /\ hist' = [hist EXCEPT !.handed = @ \cup Handed(msgs)]
  /\ UNCHANGED <<flows, flow_requests, flow_responses,
                 flow_processing_requests, message_handler_requests,
                 hunts, now, serial, wr, lf, lq>>

\* Line 157, time.sleep(_MESSAGE_HANDLER_POLL_TIME_SECS) returns: the loop
\* tests the stop flag.
MessageHandlerLoop_Sleep(t) ==
  /\ loops.queue = "message_handler_requests"
  /\ t \in loops.live
  /\ t.pc = "sleep"
  /\ loops' = SetThread(t, {[t EXCEPT !.pc = "test"]})
  /\ UNCHANGED <<flows, flow_requests, flow_responses,
                 flow_processing_requests, message_handler_requests,
                 hunts, now, serial, wr, lf, lq, hist>>

\* Line 155, handler(msgs): the handler returns, having deleted the
\* messages it was given, or raises, having deleted nothing.
MessageHandlerLoop_Handler(t, outcome) ==
  /\ loops.queue = "message_handler_requests"
  /\ t \in loops.live
  /\ t.pc = "handle"
  /\ IF outcome = "ok"
     THEN /\ message_handler_requests' =
               DeleteMessageHandlerRequestsRows(message_handler_requests,
                                                t.msgs)
          /\ loops' = SetThread(t, {[t EXCEPT !.pc = "test", !.msgs = {}]})
          /\ hist' = hist
     ELSE /\ message_handler_requests' = message_handler_requests
          /\ loops' = SetThread(t, AfterException(t))
          /\ hist' = [hist EXCEPT !.raised = @ \cup
               { [ key |-> MhKey(r), leased_until |-> Val(r.leased_until) ] :
                   r \in { q \in message_handler_requests :
                             MhKey(q) \in t.msgs } }]
  /\ UNCHANGED <<flows, flow_requests, flow_responses,
                 flow_processing_requests, hunts, now, serial, wr, lf, lq>>

\* _FlowProcessingRequestHandlerLoop, line 1514: the thread starts the
\* pool of the handler.
FlowProcessingRequestHandlerLoop_Start(t) ==
  /\ loops.queue = "flow_processing_requests"
  /\ t \in loops.live
  /\ t.pc = "start"
  /\ loops' = [SetThread(t, {[t EXCEPT !.pc = "test"]}) EXCEPT
                 !.pool = TRUE]
  /\ UNCHANGED <<flows, flow_requests, flow_responses,
                 flow_processing_requests, message_handler_requests,
                 hunts, now, serial, wr, lf, lq, hist>>

\* Lines 1516-1521: the loop is left when the stop flag is set; with no
\* free pool thread it sleeps; else it leases up to free_threads items.
FlowProcessingRequestHandlerLoop_Test(t) ==
  /\ loops.queue = "flow_processing_requests"
  /\ t \in loops.live
  /\ t.pc = "test"
  /\ LET free_threads == PoolSize - Cardinality(loops.tasks)
     IN IF loops.stop
        THEN /\ loops' = SetThread(t, {[t EXCEPT !.pc = "stop"]})
             /\ hist' = hist
        ELSE IF free_threads = 0
        THEN /\ loops' = SetThread(t, {[t EXCEPT !.pc = "sleep"]})
             /\ hist' = hist
        ELSE /\ loops' = SetThread(t, {[t EXCEPT !.pc = "leasing",
                                                !.limit = free_threads]})
             /\ hist' = [hist EXCEPT !.lret = NoLease]
  /\ UNCHANGED <<flows, flow_requests, flow_responses,
                 flow_processing_requests, message_handler_requests,
                 hunts, now, serial, wr, lf, lq>>

\* Line 1523 inside the loop: the Lease call of the loop thread.
FlowProcessingRequestHandlerLoop_LeaseUpdate(t, salt) ==
  /\ loops.queue = "flow_processing_requests"
  /\ t \in loops.live
  /\ t.pc = "leasing"
  /\ hist.lret = NoLease
  /\ LeaseFlowProcessingRequests_Update(Self, salt, t.limit)

\* Lines 1523, 1532-1534: the Lease call raises; the loop logs the
\* exception and sleeps.
FlowProcessingRequestHandlerLoop_LeaseRaises(t) ==
  /\ loops.queue = "flow_processing_requests"
  /\ t \in loops.live
  /\ t.pc = "leasing"
  /\ hist.lret = NoLease
  /\ lq[Self].pc = "idle"
  /\ loops' = SetThread(t, { [x EXCEPT !.pc = "sleep"] :
                               x \in AfterException(t) })
  /\ UNCHANGED <<flows, flow_requests, flow_responses,
                 flow_processing_requests, message_handler_requests,
                 hunts, now, serial, wr, lf, lq, hist>>

\* Lines 1523-1530: the Lease call has returned; every message becomes a
\* task of the pool, which has a free thread for it; without messages the
\* loop sleeps.
FlowProcessingRequestHandlerLoop_Leased(t) ==
  /\ loops.queue = "flow_processing_requests"
  /\ t \in loops.live
  /\ t.pc = "leasing"
  /\ hist.lret.queue = "flow_processing_requests"
  /\ lq[Self].pc = "idle"
  /\ LET msgs == hist.lret.returned
     IN /\ loops' = [SetThread(t,
               {[t EXCEPT !.pc = IF msgs = {} THEN "sleep" ELSE "test"]})
             EXCEPT
               !.tasks = @ \cup LeasedMessages(flow_processing_requests, msgs)]
        /\ hist' = [hist EXCEPT !.handed = @ \cup Handed(msgs)]
  /\ UNCHANGED <<flows, flow_requests, flow_responses,
                 flow_processing_requests, message_handler_requests,
                 hunts, now, serial, wr, lf, lq>>

\* Lines 1520, 1530 and 1534, time.sleep(_FLOW_REQUEST_POLL_TIME_SECS)
\* returns: the loop tests the stop flag.
FlowProcessingRequestHandlerLoop_Sleep(t) ==
  /\ loops.queue = "flow_processing_requests"
  /\ t \in loops.live
  /\ t.pc = "sleep"
  /\ loops' = SetThread(t, {[t EXCEPT !.pc = "test"]})
  /\ UNCHANGED <<flows, flow_requests, flow_responses,
                 flow_processing_requests, message_handler_requests,
                 hunts, now, serial, wr, lf, lq, hist>>

\* Variant: the loop ends and leaves the pool started.
PoolAfterStop_StillStarted == TRUE

\* ThreadPool.Stop() has returned: the pool is not started.
PoolAfterStop == FALSE

\* Line 1536, flow_processing_request_handler_pool.Stop(): the pool ends
\* its threads once the tasks it holds are done, and the loop thread ends.
FlowProcessingRequestHandlerLoop_Stop(t) ==
  /\ loops.queue = "flow_processing_requests"
  /\ t \in loops.live
  /\ t.pc = "stop"
  /\ loops.tasks = {}
  /\ loops' = [SetThread(t, {}) EXCEPT !.pool = PoolAfterStop]
  /\ UNCHANGED <<flows, flow_requests, flow_responses,
                 flow_processing_requests, message_handler_requests,
                 hunts, now, serial, wr, lf, lq, hist>>

\* Variant: a message whose handler raised is deleted.
RowsAfterRaise_Deleted(tbl, m) == AckFlowProcessingRequestsRows(tbl, {m})

\* Nothing in the loop or the pool touches the row of a message whose
\* handler raised: AckFlowProcessingRequests is the handler's to call.
RowsAfterRaise(tbl, m) == tbl

\* A task of the pool, handler(m): the handler returns, having acknowledged
\* the message, or raises, having acknowledged nothing; the pool logs the
\* exception and the thread is free again.
FlowProcessingHandler(m, outcome) ==
  /\ m \in loops.tasks
  /\ loops' = [loops EXCEPT !.tasks = @ \ {m}]
  /\ IF outcome = "ok"
     THEN /\ flow_processing_requests' =
               AckFlowProcessingRequestsRows(flow_processing_requests, {m})
          /\ hist' = hist
     ELSE /\ flow_processing_requests' =
               RowsAfterRaise(flow_processing_requests, m)
          /\ hist' = [hist EXCEPT !.raised = @ \cup
               { [ key |-> FprKey(r), leased_until |-> Val(r.leased_until) ] :
                   r \in { q \in flow_processing_requests :
                             FprKey(q) = m.key } }]
  /\ UNCHANGED <<flows, flow_requests, flow_responses,
                 message_handler_requests, hunts, now, serial, wr, lf, lq>>

----------------------------------------------------------------------------
(* Specification of the correlator: responses arrive from two callers     *)
(* while a worker that processes the flow releases it.                     *)

NoRet ==
  [ op |-> "none", who |-> "none", arg |-> <<>>, result |-> FALSE,
    error |-> "none" ]

RequestKeys == FlowIds \X RequestIds

HistInit ==
  [ ret |-> NoRet, lease |-> [w \in Workers |-> NULL],
    lret |-> NoLease, held |-> {}, early |-> {}, wfr |-> NoWfr,
    handed |-> {}, raised |-> {},
    resent |-> FALSE, short_marks |-> {}, raced |-> {},
    marks |-> [k \in RequestKeys |-> 0],
    fpr_for |-> [k \in RequestKeys |-> 0] ]

\* The messages that arrive: they answer request 2, with every response id
\* as data and as status.
ResponseMsgs ==
  { ResponseMsg(f, 2, id, k) :
      f \in FlowIds, id \in ResponseIds, k \in {"response", "status"} }

\* A call carries at most one batch.
CallInputs ==
  UNION { [1..n -> ResponseMsgs] : n \in 1..WRITE_ROWS_BATCH_SIZE }

\* What a worker hands back: the flow advanced to some request.
ReleaseObjs ==
  { FlowObj(f, n, "processed", "RUNNING", 1) :
      f \in FlowIds, n \in RequestIds }

\* The flow is leased by worker w1, which processes it; its requests have
\* been written by WriteFlowRequests and wait for their responses.
InitResp ==
  /\ flows \in [FlowIds ->
       { [FlowRow(n, "created", "RUNNING", 0, NULL) EXCEPT
            !.processing_on = Some("w1"),
            !.processing_since = Some(0),
            !.processing_deadline = Some(MaxNow + 1)] : n \in RequestIds }]
  /\ \E cfg \in {<<"", NULL>>, <<"Callback", NULL>>, <<"", Some(1)>>} :
       flow_requests =
         { RequestRow(f, 1, FALSE, "", NULL) : f \in FlowIds } \cup
         { RequestRow(f, 2, FALSE, cfg[1], cfg[2]) : f \in FlowIds }
  /\ flow_responses = {}
  /\ flow_processing_requests = {}
  /\ message_handler_requests = {}
  /\ hunts = <<>>
  /\ now = 0
  /\ serial = 1
  /\ wr = [c \in Callers |-> WrIdle]
  /\ lf = [w \in Workers |-> LfIdle]
  /\ lq = [w \in Workers |-> LqIdle]
  /\ loops = LoopsInit("none")
  /\ hist = [HistInit EXCEPT
       !.lease["w1"] = Some([flow_id |-> "F1",
                             processing_deadline |-> MaxNow + 1])]

NextResp ==
  \/ \E c \in Callers, responses \in CallInputs :
       WriteFlowResponses(c, responses, WRITE_ROWS_BATCH_SIZE)
  \/ \E c \in Callers : UpdateRequestsAndScheduleFPRs_Count(c)
  \/ \E c \in Callers : UpdateRequestsAndScheduleFPRs_Lock(c)
  \/ \E c \in Callers : UpdateRequestsAndScheduleFPRs_Commit(c)
  \/ \E o \in ReleaseObjs : ReleaseProcessedFlow("w1", o)

SpecResp == InitResp /\ [][NextResp]_vars

----------------------------------------------------------------------------
(* Specification of WriteFlowRequests: requests of a stored and of an      *)
(* unknown flow are written, one or two to a call.                         *)

\* The start times a request carries when it carries one.
StartTimes == {1}

RequestMsgs ==
  { RequestMsg(f, id, np, "", st) :
      f \in FlowIds \cup {"F9"}, id \in RequestIds, np \in BOOLEAN,
      st \in {0} \cup StartTimes }

RequestInputs ==
  { <<r>> : r \in RequestMsgs } \cup
  { <<r1, r2>> : r1 \in RequestMsgs, r2 \in RequestMsgs }

InitReq ==
  /\ flows \in [FlowIds ->
       { FlowRow(n, "created", "RUNNING", 0, NULL) : n \in RequestIds }]
  /\ flow_requests = {}
  /\ flow_responses = {}
  /\ flow_processing_requests = {}
  /\ message_handler_requests = {}
  /\ hunts = <<>>
  /\ now = 0
  /\ serial = 1
  /\ wr = [c \in Callers |-> WrIdle]
  /\ lf = [w \in Workers |-> LfIdle]
  /\ lq = [w \in Workers |-> LqIdle]
  /\ loops = LoopsInit("none")
  /\ hist = HistInit

NextReq ==
  \E requests \in RequestInputs :
    /\ WriteFlowRequests(requests)
    /\ UNCHANGED <<flows, flow_responses, message_handler_requests, hunts,
                   now, wr, lf, lq, loops>>

SpecReq == InitReq /\ [][NextReq]_vars

----------------------------------------------------------------------------
(* Specification of the flow lease: two workers lease and release one      *)
(* flow while time passes and the flow's hunt may be stopped.              *)

HuntIds == {"H1"}

ProcessingTimes == {1, 2}

\* The worker holds a lease that LeaseFlowForProcessing returned to it and
\* whose deadline is in the future.
HoldsLease(w, f) ==
  /\ hist.lease[w] # NULL
  /\ Val(hist.lease[w]).flow_id = f
  /\ Val(hist.lease[w]).processing_deadline > now

\* The flow is stored unleased, alone or as the flow of a hunt; request 1
\* waits for responses, request 2 is any request WriteFlowRequests stores.
InitLease ==
  /\ \E cfg \in { <<NULL, <<>> >>, <<Some("H1"), <<>> >>,
                  <<Some("H1"), [h \in HuntIds |-> Some("STARTED")]>>,
                  <<Some("H1"), [h \in HuntIds |-> NULL]>> } :
       /\ flows = [f \in FlowIds |->
                     FlowRow(1, "created", "RUNNING", 0, cfg[1])]
       /\ hunts = cfg[2]
  /\ \E np \in BOOLEAN, st \in {NULL, Some(1)} :
       flow_requests =
         { RequestRow(f, 1, FALSE, "", NULL) : f \in FlowIds } \cup
         { RequestRow(f, 2, np, "", st) : f \in FlowIds }
  /\ flow_responses = {}
  /\ flow_processing_requests = {}
  /\ message_handler_requests = {}
  /\ now = 0
  /\ serial = 1
  /\ wr = [c \in Callers |-> WrIdle]
  /\ lf = [w \in Workers |-> LfIdle]
  /\ lq = [w \in Workers |-> LqIdle]
  /\ loops = LoopsInit("none")
  /\ hist = HistInit

\* A worker releases a flow it holds the lease of.
NextLease ==
  \/ \E w \in Workers, f \in FlowIds, d \in ProcessingTimes :
       LeaseFlowForProcessing_Read(w, f, d)
  \/ \E w \in Workers : LeaseFlowForProcessing_Update(w)
  \/ \E w \in Workers, o \in ReleaseObjs :
       HoldsLease(w, o.flow_id) /\ ReleaseProcessedFlow(w, o)
  \/ \E h \in HuntIds : StopHunt(h)
  \/ Tick

SpecLease == InitLease /\ [][NextLease]_vars

----------------------------------------------------------------------------
(* Specification of stopped calls: one process after the other writes      *)
(* responses, and a process can stop between the two transactions.         *)

\* The messages a client sends: request 1 is answered by its status alone,
\* request 2 by a response and the status.
ClientMsgs ==
  { ResponseMsg(f, 1, 1, "status") : f \in FlowIds } \cup
  { ResponseMsg(f, 2, 1, "response") : f \in FlowIds } \cup
  { ResponseMsg(f, 2, 2, "status") : f \in FlowIds }

ClientCallInputs ==
  UNION { [1..n -> ClientMsgs] : n \in 1..WRITE_ROWS_BATCH_SIZE }

InitStop == InitResp

NextStop ==
  \/ \E responses \in ClientCallInputs :
       WriteFlowResponses("A", responses, WRITE_ROWS_BATCH_SIZE)
  \/ WriteFlowResponses_Stop("A")
  \/ UpdateRequestsAndScheduleFPRs_Count("A")
  \/ UpdateRequestsAndScheduleFPRs_Lock("A")
  \/ UpdateRequestsAndScheduleFPRs_Commit("A")

SpecStop == InitStop /\ [][NextStop]_vars

----------------------------------------------------------------------------
(* Specification of batch sizes: the same responses are written for two    *)
(* flows that are alike, for one flow in batches of a size n and for the   *)
(* other as one batch.                                                     *)

\* The flow whose responses are written in batches of size n, and the flow
\* whose responses are written as one batch.
BatchedFlow == "F1"
WholeFlow == "F9"

\* The values of _WRITE_ROWS_BATCH_SIZE, and the longest call.
BatchSizes == 1..3
MaxCallLen == 4

\* The responses of a call: messages of a client for the requests of the
\* flow, in any order and with repetitions.
BatchCallInputs ==
  UNION { [1..n -> { m \in ClientMsgs : m.flow_id = BatchedFlow }] :
          n \in 1..MaxCallLen }

\* The same message for another flow.
ForFlow(r, f) == [r EXCEPT !.flow_id = f]

\* hist.ret holds the call that is made for both flows.  The requests have
\* an empty callback_state.
InitBatch ==
  /\ \E n \in RequestIds :
       flows = [f \in {BatchedFlow, WholeFlow} |->
                  FlowRow(n, "created", "RUNNING", 0, NULL)]
  /\ flow_requests =
       { RequestRow(f, id, FALSE, "", NULL) :
           f \in {BatchedFlow, WholeFlow}, id \in RequestIds }
  /\ flow_responses = {}
  /\ flow_processing_requests = {}
  /\ message_handler_requests = {}
  /\ hunts = <<>>
  /\ now = 0
  /\ serial = 1
  /\ wr = [c \in Callers |-> WrIdle]
  /\ lf = [w \in Workers |-> LfIdle]
  /\ lq = [w \in Workers |-> LqIdle]
  /\ loops = LoopsInit("none")
  /\ \E responses \in BatchCallInputs, n \in BatchSizes :
       hist = [HistInit EXCEPT !.ret =
         [ op |-> "WriteFlowResponses", who |-> "A",
           arg |-> [responses |-> responses, n |-> n],
           result |-> FALSE, error |-> "none" ]]

ResponsesOfFlow(f) == { s \in flow_responses : s.flow_id = f }

NextBatch ==
  \/ /\ ResponsesOfFlow(BatchedFlow) = {}
     /\ WriteFlowResponses("A", hist.ret.arg.responses, hist.ret.arg.n)
  \/ /\ ResponsesOfFlow(WholeFlow) = {}
     /\ WriteFlowResponses("B",
          [i \in DOMAIN hist.ret.arg.responses |->
             ForFlow(hist.ret.arg.responses[i], WholeFlow)],
          Len(hist.ret.arg.responses))
  \/ WriteFlowResponses_NextBatch("A")
  \/ \E c \in Callers : UpdateRequestsAndScheduleFPRs_Count(c)
  \/ \E c \in Callers : UpdateRequestsAndScheduleFPRs_Lock(c)
  \/ \E c \in Callers : UpdateRequestsAndScheduleFPRs_Commit(c)

SpecBatch == InitBatch /\ [][NextBatch]_vars

----------------------------------------------------------------------------
(* Specification of late releases: a worker hands back a flow it was       *)
(* given, also after the deadline of its lease.                            *)

\* LeaseFlowForProcessing returned the flow to the worker, which has not
\* released it since.
WasGiven(w, f) ==
  /\ hist.lease[w] # NULL
  /\ Val(hist.lease[w]).flow_id = f

\* The flow is stored unleased and belongs to no hunt; no request is
\* marked.
InitLate ==
  /\ InitLease
  /\ hunts = <<>>
  /\ \A f \in FlowIds : flows[f].parent_hunt_id = NULL
  /\ \A q \in flow_requests : ~q.needs_processing /\ q.start_time = NULL

NextLate ==
  \/ \E w \in Workers, f \in FlowIds, d \in ProcessingTimes :
       LeaseFlowForProcessing_Read(w, f, d)
  \/ \E w \in Workers : LeaseFlowForProcessing_Update(w)
  \/ \E w \in Workers, o \in ReleaseObjs :
       WasGiven(w, o.flow_id) /\ ReleaseProcessedFlow(w, o)
  \/ Tick

SpecLate == InitLate /\ [][NextLate]_vars

----------------------------------------------------------------------------
(* Specification of the leased queues: the dispatch loops of two worker    *)
(* processes lease from a queue that holds items, while time passes.       *)

HandlerNames == {"handler"}

LeaseTimes == {1, 2}

Limits == {1, 3}

\* How many items wait in the queue.
QueueLengths == {1, 2}

\* The FlowProcessingRequests a caller wrote: due at once or at time 1.
FprInputs ==
  UNION { [1..n -> { [flow_id |-> f, delivery_time |-> d] :
                       f \in FlowIds, d \in {NULL, Some(1)} }] :
          n \in QueueLengths }

\* One of the two queues holds items that wait to be leased.
InitQueue ==
  /\ \/ /\ \E fprs \in FprInputs :
             flow_processing_requests =
               WriteFlowProcessingRequestsRows({}, fprs, 0)
        /\ message_handler_requests = {}
     \/ /\ flow_processing_requests = {}
        /\ \E n \in QueueLengths :
             message_handler_requests =
               { MessageHandlerRow(h, id, 0) :
                   h \in HandlerNames, id \in 1..n }
  /\ flows = [f \in FlowIds |-> FlowRow(1, "created", "RUNNING", 0, NULL)]
  /\ flow_requests = {}
  /\ flow_responses = {}
  /\ hunts = <<>>
  /\ now = 0
  /\ serial = 1
  /\ wr = [c \in Callers |-> WrIdle]
  /\ lf = [w \in Workers |-> LfIdle]
  /\ lq = [w \in Workers |-> LqIdle]
  /\ loops = LoopsInit("none")
  /\ hist = HistInit

NextQueue ==
  \/ \E w \in Workers, lease_time \in LeaseTimes, limit \in Limits :
       LeaseMessageHandlerRequests_Update(w, lease_time, limit)
  \/ \E w \in Workers : LeaseMessageHandlerRequests_Select(w)
  \/ \E w \in Workers, salt \in Salts, limit \in Limits :
       LeaseFlowProcessingRequests_Update(w, salt, limit)
  \/ \E w \in Workers : LeaseFlowProcessingRequests_Select(w)
  \/ Tick

SpecQueue == InitQueue /\ [][NextQueue]_vars

\* The dispatch loops keep calling Lease (the loops of lines 144-159 and
\* 1510-1536 call it again after every cycle) and a call that has started
\* runs to its commit.
QueueFairness ==
  \A w \in Workers :
    /\ WF_vars(\E lease_time \in LeaseTimes, limit \in Limits :
                 LeaseMessageHandlerRequests_Update(w, lease_time, limit))
    /\ WF_vars(LeaseMessageHandlerRequests_Select(w))
    /\ WF_vars(\E salt \in Salts, limit \in Limits :
                 LeaseFlowProcessingRequests_Update(w, salt, limit))
    /\ WF_vars(LeaseFlowProcessingRequests_Select(w))

SpecQueueFair == SpecQueue /\ QueueFairness

----------------------------------------------------------------------------
(* Specification of the dispatch loops: one process registers and          *)
(* unregisters handlers for a queue that holds one item, its loop thread   *)
(* leases and hands the item to the handler, and time passes.              *)

Outcomes == {"ok", "raise"}

InitLoop ==
  /\ \/ /\ flow_processing_requests =
             WriteFlowProcessingRequestsRows({},
               <<[flow_id |-> "F1", delivery_time |-> NULL]>>, 0)
        /\ message_handler_requests = {}
        /\ loops = LoopsInit("flow_processing_requests")
     \/ /\ flow_processing_requests = {}
        /\ message_handler_requests =
             { MessageHandlerRow(h, 1, 0) : h \in HandlerNames }
        /\ loops = LoopsInit("message_handler_requests")
  /\ flows = [f \in FlowIds |-> FlowRow(1, "created", "RUNNING", 0, NULL)]
  /\ flow_requests = {}
  /\ flow_responses = {}
  /\ hunts = <<>>
  /\ now = 0
  /\ serial = 1
  /\ wr = [c \in Callers |-> WrIdle]
  /\ lf = [w \in Workers |-> LfIdle]
  /\ lq = [w \in Workers |-> LqIdle]
  /\ hist = HistInit

NextLoop ==
  \/ \E handler \in Callbacks \cup {"none"}, lease_time \in LeaseTimes,
        limit \in Limits :
       RegisterMessageHandler(handler, lease_time, limit)
  \/ \E timeout \in BOOLEAN : UnregisterMessageHandler(timeout)
  \/ \E handler \in Callbacks \cup {"none"} :
       RegisterFlowProcessingHandler(handler)
  \/ \E timeout \in BOOLEAN : UnregisterFlowProcessingHandler(timeout)
  \/ Unregister_Joined
  \/ Unregister_TimedOut
  \/ \E t \in loops.live : MessageHandlerLoop_Test(t)
  \/ \E t \in loops.live : MessageHandlerLoop_LeaseUpdate(t)
  \/ \E t \in loops.live : MessageHandlerLoop_LeaseRaises(t)
  \/ LeaseMessageHandlerRequests_Select(Self)
  \/ \E t \in loops.live : MessageHandlerLoop_Leased(t)
  \/ \E t \in loops.live : MessageHandlerLoop_Sleep(t)
  \/ \E t \in loops.live, outcome \in Outcomes :
       MessageHandlerLoop_Handler(t, outcome)
  \/ \E t \in loops.live : FlowProcessingRequestHandlerLoop_Start(t)
  \/ \E t \in loops.live : FlowProcessingRequestHandlerLoop_Test(t)
  \/ \E t \in loops.live, salt \in Salts :
       FlowProcessingRequestHandlerLoop_LeaseUpdate(t, salt)
  \/ \E t \in loops.live : FlowProcessingRequestHandlerLoop_LeaseRaises(t)
  \/ LeaseFlowProcessingRequests_Select(Self)
  \/ \E t \in loops.live : FlowProcessingRequestHandlerLoop_Leased(t)
  \/ \E t \in loops.live : FlowProcessingRequestHandlerLoop_Sleep(t)
  \/ \E t \in loops.live : FlowProcessingRequestHandlerLoop_Stop(t)
  \/ \E m \in loops.tasks, outcome \in Outcomes :
       FlowProcessingHandler(m, outcome)
  \/ Tick

SpecLoop == InitLoop /\ [][NextLoop]_vars

\* The dispatch loop of the flow processing queue alone, with the
\* scheduling its liveness rests on: threads get to run, a handler returns
\* or raises, and the Lease call does not raise for ever.
InitFprLoop ==
  /\ InitLoop
  /\ loops.queue = "flow_processing_requests"

NextFprLoop ==
  \/ \E handler \in Callbacks \cup {"none"} :
       RegisterFlowProcessingHandler(handler)
  \/ \E timeout \in BOOLEAN : UnregisterFlowProcessingHandler(timeout)
  \/ Unregister_Joined
  \/ Unregister_TimedOut
  \/ \E t \in loops.live : FlowProcessingRequestHandlerLoop_Start(t)
  \/ \E t \in loops.live : FlowProcessingRequestHandlerLoop_Test(t)
  \/ \E t \in loops.live, salt \in Salts :
       FlowProcessingRequestHandlerLoop_LeaseUpdate(t, salt)
  \/ \E t \in loops.live : FlowProcessingRequestHandlerLoop_LeaseRaises(t)
  \/ LeaseFlowProcessingRequests_Select(Self)
  \/ \E t \in loops.live : FlowProcessingRequestHandlerLoop_Leased(t)
  \/ \E t \in loops.live : FlowProcessingRequestHandlerLoop_Sleep(t)
  \/ \E t \in loops.live : FlowProcessingRequestHandlerLoop_Stop(t)
  \/ \E m \in loops.tasks, outcome \in Outcomes :
       FlowProcessingHandler(m, outcome)
  \/ Tick

FprLoopFairness ==
  /\ WF_vars(\E t \in loops.live : FlowProcessingRequestHandlerLoop_Start(t))
  /\ WF_vars(\E t \in loops.live : FlowProcessingRequestHandlerLoop_Test(t))
  /\ WF_vars(\E t \in loops.live : FlowProcessingRequestHandlerLoop_Sleep(t))
  /\ WF_vars(\E t \in loops.live : FlowProcessingRequestHandlerLoop_Stop(t))
  /\ SF_vars(\E t \in loops.live, salt \in Salts :
               FlowProcessingRequestHandlerLoop_LeaseUpdate(t, salt))
  /\ WF_vars(LeaseFlowProcessingRequests_Select(Self))
  /\ WF_vars(\E t \in loops.live :
               FlowProcessingRequestHandlerLoop_Leased(t))
  /\ WF_vars(\E m \in loops.tasks, outcome \in Outcomes :
               FlowProcessingHandler(m, outcome))

SpecFprLoopFair ==
  InitFprLoop /\ [][NextFprLoop]_vars /\ FprLoopFairness

\* The dispatch loops of both queues with the scheduling their ending
\* rests on: threads get to run, a sleep ends, a handler returns or raises,
\* and the Lease call does not raise for ever.
LoopFairness ==
  /\ FprLoopFairness
  /\ WF_vars(\E t \in loops.live : MessageHandlerLoop_Test(t))
  /\ SF_vars(\E t \in loops.live : MessageHandlerLoop_LeaseUpdate(t))
  /\ WF_vars(LeaseMessageHandlerRequests_Select(Self))
  /\ WF_vars(\E t \in loops.live : MessageHandlerLoop_Leased(t))
  /\ WF_vars(\E t \in loops.live : MessageHandlerLoop_Sleep(t))
  /\ WF_vars(\E t \in loops.live, outcome \in Outcomes :
               MessageHandlerLoop_Handler(t, outcome))

\* The lease time and the limit of the handlers of the fair specification.
ShortLeaseTimes == {1}

SmallLimits == {1}

\* The steps of SpecLoop with one lease time and one limit for the
\* handler of the message handler queue.
NextLoopFair ==
  \/ \E handler \in Callbacks \cup {"none"},
        lease_time \in ShortLeaseTimes, limit \in SmallLimits :
       RegisterMessageHandler(handler, lease_time, limit)
  \/ \E timeout \in BOOLEAN : UnregisterMessageHandler(timeout)
  \/ \E handler \in Callbacks \cup {"none"} :
       RegisterFlowProcessingHandler(handler)
  \/ \E timeout \in BOOLEAN : UnregisterFlowProcessingHandler(timeout)
  \/ Unregister_Joined
  \/ Unregister_TimedOut
  \/ \E t \in loops.live : MessageHandlerLoop_Test(t)
  \/ \E t \in loops.live : MessageHandlerLoop_LeaseUpdate(t)
  \/ \E t \in loops.live : MessageHandlerLoop_LeaseRaises(t)
  \/ LeaseMessageHandlerRequests_Select(Self)
  \/ \E t \in loops.live : MessageHandlerLoop_Leased(t)
  \/ \E t \in loops.live : MessageHandlerLoop_Sleep(t)
  \/ \E t \in loops.live, outcome \in Outcomes :
       MessageHandlerLoop_Handler(t, outcome)
  \/ \E t \in loops.live : FlowProcessingRequestHandlerLoop_Start(t)
  \/ \E t \in loops.live : FlowProcessingRequestHandlerLoop_Test(t)
  \/ \E t \in loops.live, salt \in Salts :
       FlowProcessingRequestHandlerLoop_LeaseUpdate(t, salt)
  \/ \E t \in loops.live : FlowProcessingRequestHandlerLoop_LeaseRaises(t)
  \/ LeaseFlowProcessingRequests_Select(Self)
  \/ \E t \in loops.live : FlowProcessingRequestHandlerLoop_Leased(t)
  \/ \E t \in loops.live : FlowProcessingRequestHandlerLoop_Sleep(t)
  \/ \E t \in loops.live : FlowProcessingRequestHandlerLoop_Stop(t)
  \/ \E m \in loops.tasks, outcome \in Outcomes :
       FlowProcessingHandler(m, outcome)
  \/ Tick

SpecLoopFair == InitLoop /\ [][NextLoopFair]_vars /\ LoopFairness

----------------------------------------------------------------------------
(* Specification of batches of responses of which some answer requests    *)
(* that are not stored.                                                    *)

\* Responses to request 3 of the stored flow and to a request of flow F9:
\* neither request is stored.
UnknownResponseMsgs ==
  { ResponseMsg("F1", 3, 1, k) : k \in {"response", "status"} } \cup
  { ResponseMsg("F9", 2, 1, "status") }

MixedCallInputs ==
  UNION { [1..n -> ResponseMsgs \cup UnknownResponseMsgs] :
            n \in 1..WRITE_ROWS_BATCH_SIZE }

InitMixed ==
  /\ InitResp
  /\ \A q \in flow_requests : q.start_time = NULL

NextMixed ==
  \/ \E c \in Callers, responses \in MixedCallInputs :
       WriteFlowResponses(c, responses, WRITE_ROWS_BATCH_SIZE)
  \/ \E c \in Callers : UpdateRequestsAndScheduleFPRs_Count(c)
  \/ \E c \in Callers : UpdateRequestsAndScheduleFPRs_Lock(c)
  \/ \E c \in Callers : UpdateRequestsAndScheduleFPRs_Commit(c)

SpecMixed == InitMixed /\ [][NextMixed]_vars

----------------------------------------------------------------------------
(* Specification of the flow store: flows are written and updated, and   *)
(* one worker leases and releases them.                                    *)

\* The flow of the store and a flow that is never written.
StoreFlowIds == FlowIds \cup {"F9"}

\* The flow objects WriteFlowObject gets: a flow as created and as a worker
\* hands it back.
WriteObjs ==
  { FlowObj(f, n, "created", "RUNNING", 0) : f \in FlowIds, n \in RequestIds }
    \cup ReleaseObjs

\* The UpdateFlow calls of the flow store: no argument, a flow object, a
\* state, and the lease fields cleared.
FewUpdateArgs ==
  { UpdateArgs(<<>>, <<>>, <<>>, <<>>, <<>>, <<>>),
    UpdateArgs(<<>>, <<"ERROR">>, <<>>, <<>>, <<>>, <<>>),
    UpdateArgs(<<>>, <<>>, <<>>, <<NULL>>, <<NULL>>, <<NULL>>) } \cup
  { UpdateArgs(<<o>>, <<>>, <<>>, <<>>, <<>>, <<>>) : o \in ReleaseObjs }

InitFlow ==
  /\ flows = <<>>
  /\ flow_requests = {}
  /\ flow_responses = {}
  /\ flow_processing_requests = {}
  /\ message_handler_requests = {}
  /\ hunts = <<>>
  /\ now = 0
  /\ serial = 1
  /\ wr = [c \in Callers |-> WrIdle]
  /\ lf = [w \in Workers |-> LfIdle]
  /\ lq = [w \in Workers |-> LqIdle]
  /\ loops = LoopsInit("none")
  /\ hist = HistInit

NextFlow ==
  \/ \E o \in WriteObjs, allow_update \in BOOLEAN :
       WriteFlowObject(o, allow_update)
  \/ \E f \in StoreFlowIds, a \in FewUpdateArgs : UpdateFlow(f, a)
  \/ \E f \in StoreFlowIds, d \in ProcessingTimes :
       LeaseFlowForProcessing_Read(Self, f, d)
  \/ LeaseFlowForProcessing_Update(Self)
  \/ \E o \in ReleaseObjs :
       HoldsLease(Self, o.flow_id) /\ ReleaseProcessedFlow(Self, o)
  \/ Tick

SpecFlow == InitFlow /\ [][NextFlow]_vars

----------------------------------------------------------------------------
(* Specification of UpdateFlow as a function of the stored row and of its *)
(* arguments: one call on a flow that is stored, or is not.                *)

\* The rows UpdateFlow finds: a flow as created or as handed back, with or
\* without crash information, a parent hunt and a lease.
StoredRows ==
  { [ FlowRow(n, p[1], p[2], p[3], hunt) EXCEPT
        !.client_crash_info = crash,
        !.processing_on = l[1],
        !.processing_since = l[2],
        !.processing_deadline = l[3] ] :
      n \in RequestIds,
      p \in { <<"created", "RUNNING", 0>>, <<"processed", "FINISHED", 1>> },
      hunt \in {NULL, Some("H1")},
      crash \in {NULL, Some("old crash")},
      l \in { <<NULL, NULL, NULL>>, <<Some("w1"), Some(0), Some(2)>> } }

\* The flow objects UpdateFlow gets.
UpdateObjs ==
  { FlowObj(f, n, "updated", "CRASHED", 2) : f \in FlowIds, n \in RequestIds }

\* Every combination of arguments, at time t.
AllUpdateArgs(t) ==
  { UpdateArgs(o, st, cr, on, since, deadline) :
      o \in {<<>>} \cup { <<x>> : x \in UpdateObjs },
      st \in { <<>>, <<"ERROR">> },
      cr \in { <<>>, <<"crash">> },
      on \in { <<>>, <<NULL>>, <<Some("w2")>> },
      since \in { <<>>, <<NULL>>, <<Some(t)>> },
      deadline \in { <<>>, <<NULL>>, <<Some(t + 1)>> } }

InitUpdate ==
  /\ flows \in {<<>>} \cup { [f \in FlowIds |-> row] : row \in StoredRows }
  /\ now \in 1..MaxNow
  /\ flow_requests = {}
  /\ flow_responses = {}
  /\ flow_processing_requests = {}
  /\ message_handler_requests = {}
  /\ hunts = <<>>
  /\ serial = 1
  /\ wr = [c \in Callers |-> WrIdle]
  /\ lf = [w \in Workers |-> LfIdle]
  /\ lq = [w \in Workers |-> LqIdle]
  /\ loops = LoopsInit("none")
  /\ hist = HistInit

NextUpdate ==
  /\ hist.ret.op = "none"
  /\ \E f \in FlowIds, a \in AllUpdateArgs(now) : UpdateFlow(f, a)

SpecUpdate == InitUpdate /\ [][NextUpdate]_vars

----------------------------------------------------------------------------
(* Specification of AckFlowProcessingRequests: FlowProcessingRequests of   *)
(* two flows, some of them leased, are written and acknowledged.           *)

\* What callers write: a request for F1, alone or with one for F9, due at
\* once.
AckFprInputs ==
  { << [flow_id |-> "F1", delivery_time |-> NULL] >>,
    << [flow_id |-> "F1", delivery_time |-> NULL],
       [flow_id |-> "F9", delivery_time |-> NULL] >> }

\* The items a caller acknowledges: FlowProcessingRequests as reads hand
\* them out, some of them of rows that are gone or never were.
AckItems ==
  { [ flow_id |-> f,
      creation_time |-> TimestampToMicrosecondsSinceEpoch(t) ] :
      f \in StoreFlowIds, t \in 0..MaxNow }

AckInputs == { R \in SUBSET AckItems : Cardinality(R) <= 2 }

\* One statement has written two requests for F1 and one for F9.
AckWritten ==
  WriteFlowProcessingRequestsRows({},
    << [flow_id |-> "F1", delivery_time |-> NULL],
       [flow_id |-> "F9", delivery_time |-> NULL],
       [flow_id |-> "F1", delivery_time |-> NULL] >>, 0)

\* A Lease call of this process has leased some of the rows, or none.
InitAck ==
  /\ \E leased \in SUBSET AckWritten :
       flow_processing_requests =
         Stamp(AckWritten, leased, <<Self, 0>>, FPR_LEASE_TIME)
  /\ message_handler_requests = {}
  /\ flows = [f \in FlowIds |-> FlowRow(1, "created", "RUNNING", 0, NULL)]
  /\ flow_requests = {}
  /\ flow_responses = {}
  /\ hunts = <<>>
  /\ now = 0
  /\ serial = 1
  /\ wr = [c \in Callers |-> WrIdle]
  /\ lf = [w \in Workers |-> LfIdle]
  /\ lq = [w \in Workers |-> LqIdle]
  /\ loops = LoopsInit("none")
  /\ hist = HistInit

NextAck ==
  \/ \E fprs \in AckFprInputs : WriteFlowProcessingRequests(fprs)
  \/ \E requests \in AckInputs : AckFlowProcessingRequests(requests)
  \/ Tick

SpecAck == InitAck /\ [][NextAck]_vars

----------------------------------------------------------------------------
(* Specification of the message handler requests: requests of two handlers *)
(* are written and deleted.                                                *)

\* The requests a caller writes or deletes: one or two, of two handlers.
MhRequestInputs ==
  { R \in SUBSET ({"handler", "other"} \X {1, 2}) :
      Cardinality(R) \in {1, 2} }

InitMh ==
  /\ flow_processing_requests = {}
  /\ message_handler_requests = {}
  /\ flows = [f \in FlowIds |-> FlowRow(1, "created", "RUNNING", 0, NULL)]
  /\ flow_requests = {}
  /\ flow_responses = {}
  /\ hunts = <<>>
  /\ now = 0
  /\ serial = 1
  /\ wr = [c \in Callers |-> WrIdle]
  /\ lf = [w \in Workers |-> LfIdle]
  /\ lq = [w \in Workers |-> LqIdle]
  /\ loops = LoopsInit("none")
  /\ hist = HistInit

NextMh ==
  \/ \E requests \in MhRequestInputs : WriteMessageHandlerRequests(requests)
  \/ \E requests \in MhRequestInputs : DeleteMessageHandlerRequests(requests)
  \/ Tick

SpecMh == InitMh /\ [][NextMh]_vars

----------------------------------------------------------------------------
(* Specification of the stored requests and responses of two flows, which  *)
(* are written, read and deleted.                                          *)

\* The request keys callers name: of the two flows, and of a flow that is
\* not stored.
StoreRequestKeys == {<<"F1", 1>>, <<"F1", 2>>, <<"F9", 1>>, <<"F0", 1>>}

\* The requests a caller writes, one to a call.
StoreRequestInputs ==
  { << RequestMsg(k[1], k[2], FALSE, "", 0) >> : k \in StoreRequestKeys }

\* The responses a caller writes: the first of request 1 of a flow, or the
\* two of request 1 of F1 with the later one first.
StoreResponseInputs ==
  { << ResponseMsg(f, 1, 1, "response") >> : f \in StoreFlowIds }
    \cup { << ResponseMsg("F1", 1, 2, "response"),
              ResponseMsg("F1", 1, 1, "response") >> }

\* The requests DeleteFlowRequests is given: none, one or two.
StoreDeleteInputs ==
  { <<>>,
    << RequestMsg("F1", 1, FALSE, "", 0) >>,
    << RequestMsg("F1", 1, FALSE, "", 0),
       RequestMsg("F9", 1, FALSE, "", 0) >> }

InitStore ==
  /\ flows =
       [f \in StoreFlowIds |-> FlowRow(1, "created", "RUNNING", 0, NULL)]
  /\ flow_requests = {}
  /\ flow_responses = {}
  /\ flow_processing_requests = {}
  /\ message_handler_requests = {}
  /\ hunts = <<>>
  /\ now = 0
  /\ serial = 1
  /\ wr = [c \in Callers |-> WrIdle]
  /\ lf = [w \in Workers |-> LfIdle]
  /\ lq = [w \in Workers |-> LqIdle]
  /\ loops = LoopsInit("none")
  /\ hist = HistInit

NextStore ==
  \/ \E requests \in StoreRequestInputs :
       /\ WriteFlowRequests(requests)
       /\ UNCHANGED <<flows, flow_responses, message_handler_requests,
                      hunts, now, wr, lf, lq, loops>>
  \/ \E responses \in StoreResponseInputs :
       WriteFlowResponses("A", responses, WRITE_ROWS_BATCH_SIZE)
  \/ UpdateRequestsAndScheduleFPRs_Count("A")
  \/ UpdateRequestsAndScheduleFPRs_Lock("A")
  \/ UpdateRequestsAndScheduleFPRs_Commit("A")
  \/ \E f \in StoreFlowIds : ReadAllFlowRequestsAndResponses(f)
  \/ \E f \in StoreFlowIds : ReadFlowRequests(f)
  \/ \E f \in StoreFlowIds : DeleteAllFlowRequestsAndResponses(f)
  \/ \E requests \in StoreDeleteInputs : DeleteFlowRequests(requests)

SpecStore == InitStore /\ [][NextStore]_vars

----------------------------------------------------------------------------
(* Properties of the flow lease.                                           *)

\* C3: when two workers run LeaseFlowForProcessing on the same flow
\* concurrently, at most one of them returns successfully: at no time do
\* two workers both hold a returned lease on the same flow whose
\* processing_deadline is in the future.
C3_AtMostOneLeaseHolder ==
  \A w1 \in Workers, w2 \in Workers, f \in FlowIds :
    HoldsLease(w1, f) /\ HoldsLease(w2, f) => w1 = w2

\* The stored request the flow object names as its next one is marked.
NextRequestMarked(o) ==
  \E q \in flow_requests :
    /\ q.flow_id = o.flow_id
    /\ q.request_id = o.next_request_to_process
    /\ q.needs_processing

\* The same, for a request whose start_time is unset or has passed.
NextRequestMarkedAndDue(o) ==
  \E q \in flow_requests :
    /\ q.flow_id = o.flow_id
    /\ q.request_id = o.next_request_to_process
    /\ q.needs_processing
    /\ (q.start_time = NULL \/ Val(q.start_time) < now)

\* C5 as stated: if a stored request with request_id equal to the
\* next_request_to_process of the flow object has needs_processing=true,
\* ReleaseProcessedFlow returns False and changes no column of the flow
\* row.
C5_MarkedNextRequestBlocksRelease ==
  [][\A w \in Workers, o \in ReleaseObjs :
       ReleaseProcessedFlow(w, o) /\ NextRequestMarked(o)
         => hist'.ret.result = FALSE /\ flows' = flows]_vars

\* C5, amended: if that request has needs_processing=true and its
\* start_time is unset or earlier than the current time,
\* ReleaseProcessedFlow returns False and changes no column of the flow
\* row.
C5_MarkedDueNextRequestBlocksRelease ==
  [][\A w \in Workers, o \in ReleaseObjs :
       ReleaseProcessedFlow(w, o) /\ NextRequestMarkedAndDue(o)
         => hist'.ret.result = FALSE /\ flows' = flows]_vars

\* A release of a flow whose next request is marked and due has returned
\* False, and the worker's lease is still stored.
C5_Witness ==
  /\ hist.ret.op = "ReleaseProcessedFlow"
  /\ hist.ret.result = FALSE
  /\ NextRequestMarkedAndDue(hist.ret.arg)
  /\ flows[hist.ret.arg.flow_id].processing_on = Some(hist.ret.who)
  /\ flows[hist.ret.arg.flow_id].next_request_to_process
       # hist.ret.arg.next_request_to_process

\* The flow row carries a lease with a deadline.
Leased(f) ==
  /\ f \in DOMAIN flows
  /\ flows[f].processing_on # NULL
  /\ flows[f].processing_deadline # NULL

\* A call made before the stored deadline fails with the 'already being
\* processed' error and leaves the lease fields as they are.
LeaseBeforeDeadlineFails(w, f, d) ==
  LeaseFlowForProcessing_Read(w, f, d) /\ Leased(f)
    /\ now < Val(flows[f].processing_deadline)
  => /\ hist'.ret.op = "LeaseFlowForProcessing"
     /\ hist'.ret.who = w
     /\ hist'.ret.error = "ValueError"
     /\ lf'[w].pc = "idle"
     /\ flows' = flows

\* A call that got through its checks installs the caller's lease with
\* deadline = the clock value of the call + duration.
LeaseInstalls(w) ==
  LeaseFlowForProcessing_Update(w)
  => /\ flows'[lf[w].flow_id].processing_on = Some(w)
     /\ flows'[lf[w].flow_id].processing_since = Some(lf[w].now)
     /\ flows'[lf[w].flow_id].processing_deadline =
          Some(lf[w].now + hist'.ret.arg.processing_time)
     /\ hist'.ret.result = TRUE
     /\ hist'.ret.who = w

\* C6 as stated: after a successful lease, a further call made before the
\* stored processing_deadline fails with the 'already being processed'
\* error and leaves the lease fields unchanged; a call made after the
\* deadline has passed succeeds and installs the caller's lease with
\* deadline = now + duration.
C6_LeaseAfterDeadlineSucceeds ==
  [][/\ \A w \in Workers, f \in FlowIds, d \in ProcessingTimes :
          /\ LeaseBeforeDeadlineFails(w, f, d)
          /\ LeaseFlowForProcessing_Read(w, f, d) /\ Leased(f)
               /\ now > Val(flows[f].processing_deadline)
             => /\ lf'[w].pc = "update"
                /\ lf'[w].now = now
                /\ lf'[w].processing_deadline = now + d
     /\ \A w \in Workers : LeaseInstalls(w)]_vars

\* C6, amended: the call made after the deadline has passed succeeds
\* unless the flow's parent hunt is stored in a state that is not suitable
\* for flow processing.
C6_LeaseAfterDeadlineSucceedsUnlessHuntStopped ==
  [][/\ \A w \in Workers, f \in FlowIds, d \in ProcessingTimes :
          /\ LeaseBeforeDeadlineFails(w, f, d)
          /\ LeaseFlowForProcessing_Read(w, f, d) /\ Leased(f)
               /\ now > Val(flows[f].processing_deadline)
               /\ ~ParentHuntIsNotRunning(flows[f])
             => /\ lf'[w].pc = "update"
                /\ lf'[w].now = now
                /\ lf'[w].processing_deadline = now + d
     /\ \A w \in Workers : LeaseInstalls(w)]_vars

\* One worker's lease ran out and the other worker's call, made after the
\* deadline, installed its own lease; before that a call was refused.
C6_Witness ==
  \E w1 \in Workers, w2 \in Workers, f \in FlowIds :
    /\ w1 # w2
    /\ hist.lease[w1] # NULL
    /\ Val(hist.lease[w1]).processing_deadline < now
    /\ hist.ret.op = "LeaseFlowForProcessing"
    /\ hist.ret.who = w2
    /\ hist.ret.result = TRUE
    /\ flows[f].processing_on = Some(w2)
    /\ flows[f].processing_since = Some(now)
    /\ flows[f].processing_deadline =
         Some(now + hist.ret.arg.processing_time)

----------------------------------------------------------------------------
(* Properties of the leased queues.                                        *)

\* C7: for any interleaving of Lease calls by different workers on the
\* same queue, no item is ever held under two unexpired leases: an item
\* returned by one Lease call is not returned by another worker's Lease
\* call made before its leased_until has passed.
C7_NoItemUnderTwoUnexpiredLeases ==
  /\ \A h1 \in hist.held, h2 \in hist.held :
       h1.queue = h2.queue /\ h1.key = h2.key /\ h1.who # h2.who
         => ~(h1.leased_until >= now /\ h2.leased_until >= now)
  /\ \A h \in hist.held :
       /\ h.queue = hist.lret.queue
       /\ h.key \in hist.lret.returned
       /\ h.who # hist.lret.who
       => h.leased_until < hist.lret.at

\* An item passed from one worker to the other: the first lease ran out,
\* the second is in force, the first worker's next call found nothing
\* eligible, and a call is in flight.
C7_Witness ==
  \E h1 \in hist.held, h2 \in hist.held :
    /\ h1.queue = h2.queue
    /\ h1.key = h2.key
    /\ h1.who # h2.who
    /\ h1.leased_until < now
    /\ h2.leased_until >= now
    /\ hist.lret.who = h1.who
    /\ hist.lret.eligible = {}
    /\ \E w \in Workers : lq[w].pc = "select"

\* C8: with M eligible items in a queue and a lease limit N > M, a Lease
\* call returns exactly those M items; a Lease call made before their
\* leased_until has passed returns none of them; once leased_until has
\* passed they are eligible and are returned again.
C8_LeaseReturnsTheEligibleItems ==
  /\ hist.lret.limit > Cardinality(hist.lret.eligible)
       => hist.lret.returned = hist.lret.eligible
  /\ hist.lret.returned \cap hist.lret.barred = {}

\* The same for a call whose stamp no other row of the queue carries.
C8_WithUniqueStamp ==
  ~hist.lret.clash => C8_LeaseReturnsTheEligibleItems

\* C9: each Lease call returns exactly the set of items that this very
\* call stamped with its leased_by and leased_until, and no item stamped
\* by another call, also when the same process makes two Lease calls at
\* the same clock value.
C9_LeaseReturnsWhatItStamped ==
  hist.lret.returned = hist.lret.stamped

\* The same for a call whose stamp no other row of the queue carries.
C9_WithUniqueStamp ==
  ~hist.lret.clash => C9_LeaseReturnsWhatItStamped

\* The keys the items of the two queues can have.
FprKeys == { <<0, i>> : i \in QueueLengths }

MhKeys == HandlerNames \X QueueLengths

\* The item is stored and carries a lease that has passed.
FprLeasePassed(k) ==
  \E r \in flow_processing_requests :
    FprKey(r) = k /\ SqlLt(r.leased_until, now)

MhLeasePassed(k) ==
  \E r \in message_handler_requests :
    MhKey(r) = k /\ SqlLt(r.leased_until, now)

\* The item has been returned by a Lease call and that lease is in force.
ReturnedAgain(queue, k) ==
  \E h \in hist.held :
    h.queue = queue /\ h.key = k /\ h.leased_until >= now

\* No step takes an item out of its queue.
StaysInQueue ==
  /\ { FprKey(r) : r \in flow_processing_requests }
       \subseteq { FprKey(r) : r \in flow_processing_requests' }
  /\ { MhKey(r) : r \in message_handler_requests }
       \subseteq { MhKey(r) : r \in message_handler_requests' }

C11_WithUniqueStamp ==
  /\ [][StaysInQueue]_vars
  /\ \A k \in FprKeys :
       FprLeasePassed(k) ~>
         (ReturnedAgain("flow_processing_requests", k) \/ hist.lret.clash)
  /\ \A k \in MhKeys :
       MhLeasePassed(k) ~>
         (ReturnedAgain("message_handler_requests", k) \/ hist.lret.clash)

\* Every FlowProcessingRequest a call stamps or returns was due when the
\* call was made.
NotLeasedBeforeDelivery ==
  \A r \in flow_processing_requests :
    r.delivery_time # NULL =>
      /\ \A w \in Workers :
           /\ lq[w].queue = "flow_processing_requests"
           /\ FprKey(r) \in lq[w].stamped
           => Val(r.delivery_time) <= lq[w].now
      /\ /\ hist.lret.queue = "flow_processing_requests"
         /\ FprKey(r) \in hist.lret.returned
         => Val(r.delivery_time) <= hist.lret.at

\* A call whose limit covers the queue stamps every FlowProcessingRequest
\* whose delivery_time has come and that is under no lease in force.
LeasedFromDeliveryOn(w, salt, limit) ==
  /\ LeaseFlowProcessingRequests_Update(w, salt, limit)
  /\ limit > Cardinality(flow_processing_requests)
  => \A r \in flow_processing_requests :
       /\ r.delivery_time # NULL
       /\ Val(r.delivery_time) <= now
       /\ r.leased_until = NULL \/ Val(r.leased_until) < now
       => FprKey(r) \in lq'[w].stamped

\* C12: a FlowProcessingRequest written with a delivery_time is never
\* returned by _LeaseFlowProcessingRequests while the clock is earlier than
\* delivery_time, and it is eligible for lease from delivery_time onwards
\* when it is not under an unexpired lease.
C12_DeliveryTimeGatesTheLease ==
  /\ []NotLeasedBeforeDelivery
  /\ [][\A w \in Workers, salt \in Salts, limit \in Limits :
          LeasedFromDeliveryOn(w, salt, limit)]_vars

\* A request with delivery_time 1 waited at time 0 while another one was
\* leased, and has been returned by a call made at time 1.
C12_Witness ==
  /\ hist.lret.queue = "flow_processing_requests"
  /\ hist.lret.at = 1
  /\ \E r \in flow_processing_requests :
       /\ r.delivery_time = Some(1)
       /\ FprKey(r) \in hist.lret.returned
       /\ FprKey(r) \in hist.lret.stamped
  /\ \E h \in hist.held : h.leased_until = FPR_LEASE_TIME

----------------------------------------------------------------------------
(* Properties of the correlator.                                           *)

WrQuiet == \A c \in Callers : wr[c].pc = "idle"

Complete(q) == SqlEq(q.responses_expected, StoredCount(RequestKey(q)))

\* C1: a request with empty callback_state gets at most one
\* FlowProcessingRequest from completion detection, however the write and
\* detection transactions of concurrent WriteFlowResponses calls interleave
\* (never two); and once the calls have returned, a complete request that has
\* been the flow's next_request_to_process all along (no release has touched
\* the pointer) has got exactly one (never zero).
C1_ExactlyOneFprPerReadyRequest ==
  \A q \in flow_requests :
    q.callback_state = "" =>
      /\ hist.fpr_for[RequestKey(q)] <= 1
      /\ ( /\ WrQuiet
           /\ Complete(q)
           /\ hist.ret.op = "none"
           /\ flows[q.flow_id].next_request_to_process = q.request_id )
         => hist.fpr_for[RequestKey(q)] = 1

\* C1 witness: two calls raced on the same complete request (the second
\* detection transaction found it already marked), the calls have returned
\* and one FlowProcessingRequest is stored.
C1_Witness ==
  \E q \in flow_requests :
    /\ q.callback_state = ""
    /\ RequestKey(q) \in hist.raced
    /\ WrQuiet
    /\ hist.ret.op = "none"
    /\ flows[q.flow_id].next_request_to_process = q.request_id
    /\ hist.fpr_for[RequestKey(q)] = 1
    /\ Cardinality(flow_processing_requests) = 1

\* C2: for a request with empty callback_state, needs_processing goes from
\* false to true at most once and never while fewer responses are stored
\* than responses_expected announces; and when the calls have returned with
\* exactly responses_expected responses stored, it has gone to true exactly
\* once.
C2_MarkedExactlyOnce ==
  \A q \in flow_requests :
    q.callback_state = "" =>
      /\ hist.marks[RequestKey(q)] <= 1
      /\ q.needs_processing <=> hist.marks[RequestKey(q)] = 1
      /\ RequestKey(q) \notin hist.short_marks
      /\ (WrQuiet /\ Complete(q)) => q.needs_processing

\* C2 witness: the status announced 2, both responses are stored, one of
\* them was re-sent, and the request has been marked once.
C2_Witness ==
  \E q \in flow_requests :
    /\ q.callback_state = ""
    /\ q.responses_expected = Some(2)
    /\ StoredCount(RequestKey(q)) = 2
    /\ hist.resent
    /\ WrQuiet
    /\ q.needs_processing
    /\ hist.marks[RequestKey(q)] = 1

\* C4 (as claimed): a flow that a ReleaseProcessedFlow has released
\* (processing_on cleared) with its next_request_to_process at a request
\* marked needs_processing has had a FlowProcessingRequest written for that
\* request.
C4_ReleasedFlowHasFprForReadyRequest ==
  \A q \in flow_requests :
    ( /\ q.needs_processing
      /\ flows[q.flow_id].processing_on = NULL
      /\ flows[q.flow_id].next_request_to_process = q.request_id )
    => hist.fpr_for[RequestKey(q)] >= 1

\* The same, for the requests that carry no start_time.
C4_WithoutStartTime ==
  \A q \in flow_requests :
    ( /\ q.needs_processing
      /\ q.start_time = NULL
      /\ flows[q.flow_id].processing_on = NULL
      /\ flows[q.flow_id].next_request_to_process = q.request_id )
    => hist.fpr_for[RequestKey(q)] >= 1

\* C10: the stored responses hold one row per (flow, request, response id),
\* whatever was written again, and a count that completion detection has
\* read is the number of distinct keys stored, never more.
C10_DuplicateResponseIsNoOp ==
  /\ \A s, t \in flow_responses : ResponseKey(s) = ResponseKey(t) => s = t
  /\ \A c \in Callers : \A k \in DOMAIN wr[c].response_counts :
       wr[c].response_counts[k] <= StoredCount(k)

\* C10 witness: a response was written again and a detection transaction has
\* counted the responses of its request.
C10_Witness ==
  /\ hist.resent
  /\ \E c \in Callers : \E k \in DOMAIN wr[c].response_counts :
       wr[c].response_counts[k] = Cardinality(ResponseIds)

\* The requests of caller c's batch that the detection transaction found to
\* be their flow's next_request_to_process.
BatchNextRequests(c) ==
  { q \in flow_requests :
      /\ RequestKey(q) \in wr[c].request_keys
      /\ q.flow_id \in DOMAIN wr[c].next_requests
      /\ wr[c].next_requests[q.flow_id] = q.request_id }

\* The FlowProcessingRequest rows a step writes for flow f.
FprsWrittenFor(f) ==
  { r \in flow_processing_requests' : r.flow_id = f }
    \ flow_processing_requests

\* A detection transaction commits while fewer responses than q expects are
\* stored: it writes no FlowProcessingRequest for q's flow.
NoFprBeforeNth(q) ==
  ~SqlLe(q.responses_expected, StoredCount(RequestKey(q)))
    => FprsWrittenFor(q.flow_id) = {}

----------------------------------------------------------------------------
(* Properties of WriteFlowRequests.                                        *)

\* The number of FlowProcessingRequests the last WriteFlowRequests call
\* wrote for flow f with delivery_time d.
WrittenFor(f, d) ==
  Cardinality({ r \in hist.wfr.fprs :
                  r.flow_id = f /\ r.delivery_time = d })

\* The requests of the last call that carry start_time st in flow f.
RequestsOf(f, st) ==
  { i \in DOMAIN hist.wfr.requests :
      /\ hist.wfr.requests[i].flow_id = f
      /\ hist.wfr.requests[i].start_time = st }

\* The request is its flow's stored next_request_to_process.
IsNextRequest(r) ==
  /\ r.flow_id \in DOMAIN hist.wfr.next_requests
  /\ hist.wfr.next_requests[r.flow_id] = r.request_id

\* C14: WriteFlowRequests writes one FlowProcessingRequest for each written
\* request that is flagged needs_processing and is the flow's next, one for
\* each written request that carries a start_time, with that delivery_time,
\* and none for any other request.
C14_FprForNextAndForStartTime ==
  hist.wfr.error = "none" =>
    \A f \in FlowIds :
      /\ WrittenFor(f, NULL) =
           Cardinality({ i \in RequestsOf(f, 0) :
             /\ hist.wfr.requests[i].needs_processing
             /\ IsNextRequest(hist.wfr.requests[i]) })
      /\ \A st \in StartTimes :
           WrittenFor(f, Some(st)) = Cardinality(RequestsOf(f, st))

\* C14, amended: only requests flagged needs_processing get a
\* FlowProcessingRequest: one when the request is the flow's next, one when
\* it carries a start_time, with that delivery_time; none for the others.
C14_FprForFlaggedNextOrStartTime ==
  hist.wfr.error = "none" =>
    \A f \in FlowIds :
      /\ WrittenFor(f, NULL) =
           Cardinality({ i \in RequestsOf(f, 0) :
             /\ hist.wfr.requests[i].needs_processing
             /\ IsNextRequest(hist.wfr.requests[i]) })
      /\ \A st \in StartTimes :
           WrittenFor(f, Some(st)) =
             Cardinality({ i \in RequestsOf(f, st) :
               hist.wfr.requests[i].needs_processing })

\* C14 witness: a call wrote a flagged request that is not the flow's next
\* with a start_time, and a request that is not flagged, and wrote one
\* FlowProcessingRequest, with that delivery_time.
C14_Witness ==
  /\ hist.wfr.error = "none"
  /\ Len(hist.wfr.requests) = 2
  /\ \E i, j \in DOMAIN hist.wfr.requests :
       /\ hist.wfr.requests[i].needs_processing
       /\ hist.wfr.requests[i].start_time = 1
       /\ ~IsNextRequest(hist.wfr.requests[i])
       /\ ~hist.wfr.requests[j].needs_processing
  /\ Cardinality(hist.wfr.fprs) = 1
  /\ \A r \in hist.wfr.fprs : r.delivery_time = Some(1)
  /\ Cardinality(flow_requests) = 2

----------------------------------------------------------------------------
(* Properties of the stored requests.                                      *)

\* C15: once a Status response has set a request's responses_expected, no
\* step changes its value.
C15_ResponsesExpectedIsImmutable ==
  [][\A q \in flow_requests : q.responses_expected # NULL =>
       \A p \in flow_requests' :
         RequestKey(p) = RequestKey(q) =>
           p.responses_expected = q.responses_expected]_vars

\* The row of request q after the step.
RowAfter(q) ==
  CHOOSE p \in flow_requests' : RequestKey(p) = RequestKey(q)

\* C16: every request the detection transaction selects as affected has
\* needs_processing = TRUE when the transaction commits.
C16_AffectedRequestsAreMarked ==
  [][\A c \in Callers : UpdateRequestsAndScheduleFPRs_Commit(c) =>
       \A q \in AffectedRequests(flow_requests, wr[c].response_counts) :
         RowAfter(q).needs_processing]_vars

\* C16, amended: an affected request whose response count equals
\* responses_expected has needs_processing = TRUE at the commit; one that
\* is selected for its callback_state alone is left unmarked.
C16_AffectedRequestsAreMarkedWhenComplete ==
  [][\A c \in Callers : UpdateRequestsAndScheduleFPRs_Commit(c) =>
       \A q \in AffectedRequests(flow_requests, wr[c].response_counts) :
         RowAfter(q).needs_processing <=>
           SqlEq(q.responses_expected,
                 wr[c].response_counts[RequestKey(q)])]_vars

\* C16 witness: a request with a callback_state was selected twice, which
\* left it unmarked the first time, and is marked now that it is complete.
C16_Witness ==
  \E q \in flow_requests :
    /\ q.callback_state # ""
    /\ hist.fpr_for[RequestKey(q)] = 2
    /\ hist.marks[RequestKey(q)] = 1
    /\ q.needs_processing
    /\ SqlEq(q.responses_expected, StoredCount(RequestKey(q)))

\* The responses stored for request q are one Status response and nothing
\* else.
StatusOnly(q) ==
  LET stored == { t \in flow_responses :
                    <<t.flow_id, t.request_id>> = RequestKey(q) }
  IN /\ Cardinality(stored) = 1
     /\ \A t \in stored : t.kind = "status"

\* C17: for a request with a callback_state that is not marked yet, a call
\* that wrote only a Status response selects the request in its detection
\* transaction: it writes one FlowProcessingRequest for the flow when the
\* request is the flow's next_request_to_process, and none otherwise.
C17_StatusAloneMakesCallbackRequestReady ==
  [][\A c \in Callers : UpdateRequestsAndScheduleFPRs_Commit(c) =>
       \A q \in flow_requests :
         ( /\ q.callback_state # ""
           /\ RequestKey(q) \in wr[c].request_keys
           /\ StatusOnly(q)
           /\ ~q.needs_processing ) =>
           /\ Cardinality(FprsWrittenFor(q.flow_id)) =
                IF wr[c].next_requests[q.flow_id] = q.request_id
                THEN 1 ELSE 0
           /\ hist'.fpr_for[RequestKey(q)] =
                hist.fpr_for[RequestKey(q)] +
                  IF wr[c].next_requests[q.flow_id] = q.request_id
                  THEN 1 ELSE 0]_vars

\* C17 witness: the only response stored for the flow's next request, which
\* has a callback_state, is a Status that announces more responses than are
\* stored, and a FlowProcessingRequest has been written for it.
C17_Witness ==
  \E q \in flow_requests :
    /\ q.callback_state # ""
    /\ StatusOnly(q)
    /\ ~SqlLe(q.responses_expected, StoredCount(RequestKey(q)))
    /\ flows[q.flow_id].next_request_to_process = q.request_id
    /\ hist.fpr_for[RequestKey(q)] = 1
    /\ Cardinality(flow_processing_requests) = 1

----------------------------------------------------------------------------
(* Properties of the dispatch loops.                                       *)

\* The loop of the queue runs: a thread is referenced and no stop is asked.
LoopRuns == loops.thread # NULL /\ ~loops.stop

\* C20: after Register and Unregister calls that returned without error at
\* most one loop thread of the queue runs, and it runs the handler that was
\* registered last; after an Unregister none runs.
C20_OneLoopThreadWithLastHandler ==
  /\ Cardinality(loops.live) <= 1
  /\ (loops.call.pc = "idle" /\ ~loops.errored) =>
       IF loops.registered = "none"
       THEN loops.live = {}
       ELSE \E t \in loops.live : t.handler = loops.registered

\* C20 witness: a Register call has joined the loop of the handler
\* registered before and started the loop that runs now with handler h2.
C20_Witness ==
  /\ loops.joined
  /\ ~loops.errored
  /\ loops.call.pc = "idle"
  /\ loops.registered = "h2"
  /\ \E t \in loops.live : t.handler = "h2" /\ t.pc = "leasing"

\* C19: an exception of the handler or of the Lease call does not end a
\* dispatch loop: a loop thread ends only in a step that finds the stop
\* flag set, and after an exception the thread is back at the test of the
\* stop flag, in the loop of the flow processing queue after its sleep.
C19_ExceptionsDoNotEndTheLoop ==
  [][/\ \A t \in loops.live :
          (\A t2 \in loops'.live : t2.tid # t.tid) => loops.stop
     /\ \A t \in loops.live :
          ( \/ MessageHandlerLoop_LeaseRaises(t)
            \/ MessageHandlerLoop_Handler(t, "raise") ) =>
            \E t2 \in loops'.live : t2.tid = t.tid /\ t2.pc = "test"
     /\ \A t \in loops.live :
          FlowProcessingRequestHandlerLoop_LeaseRaises(t) =>
            \E t2 \in loops'.live : t2.tid = t.tid /\ t2.pc = "sleep"
     /\ \A m \in loops.tasks :
          FlowProcessingHandler(m, "raise") => loops'.live = loops.live]_vars

\* C19 witness: a loop thread that caught an exception is in a later
\* iteration, in its Lease call, and a handler has raised.
C19_Witness ==
  /\ hist.raised # {}
  /\ ~loops.stop
  /\ \E t \in loops.live : t.caught /\ t.pc = "leasing"

\* The one item of the queue of SpecLoop, and the times a lease can end.
LoopFprKeys == { FprKey(r) :
  r \in WriteFlowProcessingRequestsRows({},
          <<[flow_id |-> "F1", delivery_time |-> NULL]>>, 0) }

LeaseEnds == 0..(MaxNow + FPR_LEASE_TIME)

\* The handler raised for item k under a lease that ended at u, u has
\* passed, and the loop runs.
RaisedAndPassed(k, u) ==
  /\ loops.queue = "flow_processing_requests"
  /\ [ key |-> k, leased_until |-> u ] \in hist.raised
  /\ u < now
  /\ LoopRuns

\* Item k was handed to the handler after time u.
HandedAfter(k, u) ==
  /\ loops.queue = "flow_processing_requests"
  /\ \E h \in hist.handed : h.key = k /\ h.at > u

\* The step takes no row out of flow_processing_requests, or it is a
\* handler that returns and has acknowledged its message.
OnlyTheHandlerDeletes ==
  \/ \A r \in flow_processing_requests :
       \E q \in flow_processing_requests' : FprKey(q) = FprKey(r)
  \/ \E m \in loops.tasks : FlowProcessingHandler(m, "ok")

\* The step in which the handler raises for m leaves the row of m as it is.
RaiseKeepsTheLease ==
  \A m \in loops.tasks : FlowProcessingHandler(m, "raise") =>
    \A r \in flow_processing_requests :
      FprKey(r) = m.key => r \in flow_processing_requests'

\* C18: when the handler raises for a leased FlowProcessingRequest the item
\* stays in the table with its lease; once leased_until has passed, the
\* loop, while it runs, hands the item to the handler again; no step of the
\* loop deletes a FlowProcessingRequest.
C18_RaisedItemIsRetriedAfterExpiry ==
  /\ [][RaiseKeepsTheLease /\ OnlyTheHandlerDeletes]_vars
  /\ \A k \in LoopFprKeys : \A u \in LeaseEnds :
       RaisedAndPassed(k, u) ~> (HandedAfter(k, u) \/ ~LoopRuns)

\* C18 witness: the handler raised for the item, its lease passed, and the
\* loop has handed the item, which is still in the table, to the handler
\* again.
C18_Witness ==
  /\ loops.queue = "flow_processing_requests"
  /\ \E e \in hist.raised : \E h \in hist.handed :
       /\ h.key = e.key
       /\ h.at > e.leased_until
       /\ \E r \in flow_processing_requests : FprKey(r) = e.key

\* Thread t takes the step, and t2 is what it is afterwards.
StepOf(t, t2) == t2.tid = t.tid /\ t2 # t

\* With the stop flag set no thread enters a Lease call.
NoNewLeaseCycle ==
  \A t \in loops.live : (loops.stop /\ t.pc # "leasing") =>
    \A t2 \in loops'.live : t2.tid = t.tid => t2.pc # "leasing"

\* A thread that sleeps does nothing but go to the test of the stop flag,
\* and the test, with the flag set, leaves the loop.
SleepThenExit ==
  \A t \in loops.live : \A t2 \in loops'.live :
    /\ (t.pc = "sleep" /\ StepOf(t, t2)) => t2.pc = "test"
    /\ (t.pc = "test" /\ loops.stop /\ StepOf(t, t2)) => t2.pc = "stop"

\* The loop thread of the flow processing queue that ends leaves the pool
\* stopped.
PoolStoppedOnExit ==
  \A t \in loops.live :
    ( /\ loops.queue = "flow_processing_requests"
      /\ \A t2 \in loops'.live : t2.tid # t.tid ) => ~loops'.pool

\* C21: once Unregister has set the stop flag the loop starts no new lease
\* cycle and, handler calls returning, its thread ends; a loop that sleeps
\* goes from the sleep to the test of the stop flag and leaves the loop
\* there, and the loop of the flow processing queue stops its pool when it
\* ends.
C21_StopFlagEndsTheLoop ==
  /\ [][NoNewLeaseCycle /\ SleepThenExit /\ PoolStoppedOnExit]_vars
  /\ loops.stop ~> (loops.live = {})
  /\ [](loops.queue = "flow_processing_requests" /\ loops.live = {}
          => ~loops.pool)

\* C21 witness: an Unregister call has returned after the loop of the flow
\* processing queue, which had handed an item to its pool, ended and
\* stopped the pool.
C21_Witness ==
  /\ loops.queue = "flow_processing_requests"
  /\ loops.stop
  /\ loops.thread = NULL
  /\ loops.live = {}
  /\ loops.call.pc = "idle"
  /\ ~loops.pool
  /\ hist.handed # {}

\* A call joins with a timeout while the loop thread is alive.
JoinsWithTimeout ==
  /\ loops.call.pc = "join"
  /\ loops.call.timeout
  /\ IsAlive(Val(loops.thread))

\* The call in flight ends in this step.
CallEnds == loops.call.pc = "join" /\ loops'.call.pc = "idle"

\* The last call has raised RuntimeError and none is in flight.
TimedOut == loops.result = "RuntimeError" /\ loops.call.pc = "idle"

\* C22: an Unregister call whose join comes back while the loop thread is
\* alive raises RuntimeError; the stop flag stays set and the thread
\* reference stays, so the thread ends at its next test of the stop flag,
\* and an Unregister call that joins the thread that has ended returns and
\* clears the reference.
C22_TimeoutRaisesAndKeepsStopAndThread ==
  /\ [][/\ (CallEnds /\ IsAlive(Val(loops.thread))) =>
            /\ JoinsWithTimeout
            /\ loops'.result = "RuntimeError"
            /\ loops'.stop
            /\ loops'.thread = loops.thread
            /\ loops'.live = loops.live
        /\ (CallEnds /\ ~IsAlive(Val(loops.thread))
              /\ loops.call.op = "Unregister") =>
            /\ loops'.result = "returned"
            /\ loops'.thread = NULL]_vars
  /\ [](TimedOut => loops.stop /\ loops.thread # NULL)
  /\ TimedOut ~> (loops.live = {})

\* C22 witness: an Unregister call has raised RuntimeError and a later
\* Unregister call has returned and cleared the thread reference.
C22_Witness ==
  /\ loops.errored
  /\ loops.result = "returned"
  /\ loops.registered = "none"
  /\ loops.call.pc = "idle"
  /\ loops.thread = NULL
  /\ loops.live = {}

----------------------------------------------------------------------------
(* Properties of the errors of the flow store.                             *)

\* The parent hunt of flow f is stored in a state that is not suitable for
\* flow processing.
HuntStoredUnsuitable(f) ==
  /\ f \in DOMAIN flows
  /\ flows[f].parent_hunt_id # NULL
  /\ \E h \in DOMAIN hunts :
       /\ flows[f].parent_hunt_id = Some(h)
       /\ hunts[h] # NULL
       /\ ~IsHuntSuitableForFlowProcessing(Val(hunts[h]))

\* The lease fields of flow f are the same before and after the step.
LeaseFieldsKept(f) ==
  /\ flows'[f].processing_on = flows[f].processing_on
  /\ flows'[f].processing_since = flows[f].processing_since
  /\ flows'[f].processing_deadline = flows[f].processing_deadline

\* The call of w ends in this step with the error.
LeaseRaises(w, error) ==
  /\ hist'.ret.op = "LeaseFlowForProcessing"
  /\ hist'.ret.who = w
  /\ hist'.ret.error = error
  /\ lf'[w].pc = "idle"

\* C23 as stated: a LeaseFlowForProcessing call for a flow whose parent
\* hunt is stored in a state that is not suitable raises
\* ParentHuntIsNotRunningError and leaves the lease fields as they are.
C23_UnsuitableHuntRaisesParentHuntIsNotRunning ==
  [][\A w \in Workers, f \in FlowIds, d \in ProcessingTimes :
       (LeaseFlowForProcessing_Read(w, f, d) /\ HuntStoredUnsuitable(f)) =>
         /\ LeaseRaises(w, "ParentHuntIsNotRunningError")
         /\ LeaseFieldsKept(f)]_vars

\* C23, amended: the call raises and leaves the lease fields as they are;
\* the error is ParentHuntIsNotRunningError unless the flow is under a
\* lease whose deadline has not passed, which is reported first.
C23_UnsuitableHuntRaisesUnlessLeased ==
  [][\A w \in Workers, f \in FlowIds, d \in ProcessingTimes :
       (LeaseFlowForProcessing_Read(w, f, d) /\ HuntStoredUnsuitable(f)) =>
         /\ LeaseRaises(w, IF Leased(f) /\ flows[f].processing_on # Some("")
                                /\ Val(flows[f].processing_deadline) > now
                             THEN "ValueError"
                             ELSE "ParentHuntIsNotRunningError")
         /\ LeaseFieldsKept(f)]_vars

\* C23 witness: the hunt was stopped while a worker held the lease of its
\* flow; after the deadline the call of the other worker has raised
\* ParentHuntIsNotRunningError and the row carries the lease as it was.
C23_Witness ==
  \E w1 \in Workers, w2 \in Workers, f \in FlowIds :
    /\ w1 # w2
    /\ HuntStoredUnsuitable(f)
    /\ hist.ret.op = "LeaseFlowForProcessing"
    /\ hist.ret.who = w2
    /\ hist.ret.error = "ParentHuntIsNotRunningError"
    /\ lf[w2].pc = "idle"
    /\ flows[f].processing_on = Some(w1)
    /\ flows[f].processing_deadline # NULL
    /\ Val(flows[f].processing_deadline) < now

\* A request of the batch names a flow that is not stored, or its key is
\* stored.
UnknownFlowOrStoredKey(requests) ==
  \E i \in DOMAIN requests :
    \/ requests[i].flow_id \notin DOMAIN flows
    \/ \E q \in flow_requests : RequestKey(q) = RequestKey(requests[i])

\* C24: a WriteFlowRequests call with a request of a flow that is not
\* stored, or with a request key that is stored, fails with
\* AtLeastOneUnknownFlowError, and a call that fails so stores none of its
\* requests and leaves no FlowProcessingRequest behind.
C24_FailedWriteFlowRequestsWritesNothing ==
  [][/\ UnknownFlowOrStoredKey(hist'.wfr.requests)
            => hist'.wfr.error = "AtLeastOneUnknownFlowError"
     /\ hist'.wfr.error = "AtLeastOneUnknownFlowError" =>
          /\ flow_requests' = flow_requests
          /\ flow_processing_requests' = flow_processing_requests]_vars

\* C24 witness: the call that failed held a flagged request that is the
\* next request of a stored flow next to a request of a flow that is not
\* stored; neither that request nor a FlowProcessingRequest of its flow is
\* stored.
C24_Witness ==
  /\ hist.wfr.error = "AtLeastOneUnknownFlowError"
  /\ \E i, j \in DOMAIN hist.wfr.requests :
       LET r == hist.wfr.requests[i]
       IN /\ hist.wfr.requests[j].flow_id \notin DOMAIN flows
          /\ r.flow_id \in DOMAIN flows
          /\ r.needs_processing
          /\ r.request_id = flows[r.flow_id].next_request_to_process
          /\ \A q \in flow_requests : RequestKey(q) # RequestKey(r)
          /\ \A p \in flow_processing_requests : p.flow_id # r.flow_id

\* The batches that hold a response to a stored request and a response to
\* a request that is not stored.
MixedBatches ==
  { b \in MixedCallInputs :
      /\ \E i \in DOMAIN b : b[i] \in UnknownResponseMsgs
      /\ \E i \in DOMAIN b : b[i] \in ResponseMsgs }

\* The request a response answers is stored.
RequestStored(r) == \E q \in flow_requests : RequestKey(q) = RequestKey(r)

\* The call of a mixed batch goes on to the completion detection with the
\* responses to stored requests stored and nothing stored for the others.
MixedBatchIsWritten ==
  \A c \in Callers : (wr[c].pc = "idle" /\ wr'[c] # wr[c]) =>
    /\ wr'[c].pc = "count"
    /\ { RequestKey(q) : q \in flow_requests' } =
         { RequestKey(q) : q \in flow_requests }
    /\ \A b \in MixedBatches :
         ( /\ wr'[c].request_keys = BatchRequestKeys(b)
           /\ WriteFlowResponses(c, b, WRITE_ROWS_BATCH_SIZE) ) =>
           \A i \in DOMAIN b :
             RequestStored(b[i]) <=>
               \E s \in flow_responses' : ResponseKey(s) = ResponseKey(b[i])

\* The count read for the batch holds every stored response of its stored,
\* unmarked requests, whatever else the batch names.
BatchIsCounted ==
  \A c \in Callers : UpdateRequestsAndScheduleFPRs_Count(c) =>
    \A q \in flow_requests :
      ( /\ RequestKey(q) \in wr[c].request_keys
        /\ ~q.needs_processing
        /\ StoredCount(RequestKey(q)) > 0 ) =>
        /\ RequestKey(q) \in DOMAIN wr'[c].response_counts
        /\ wr'[c].response_counts[RequestKey(q)] = StoredCount(RequestKey(q))

\* C25: a WriteFlowResponses batch with responses to requests that are not
\* stored and responses to stored requests raises nothing: the call goes
\* on, every response to a stored request is stored and is counted by the
\* completion detection, and nothing is stored for the other requests.
C25_MixedBatchStoresTheValidResponses ==
  /\ [][MixedBatchIsWritten /\ BatchIsCounted]_vars
  /\ [](\A s \in flow_responses : RequestStored(s))

\* C25 witness: a batch that named request 3, which is not stored, has
\* completed request 2, and the count read for it is the number the
\* request expects.
C25_Witness ==
  \E c \in Callers : \E q \in flow_requests :
    /\ wr[c].pc = "lock"
    /\ <<"F1", 3>> \in wr[c].request_keys
    /\ RequestKey(q) \in wr[c].nth
    /\ RequestKey(q) \in DOMAIN wr[c].response_counts
    /\ SqlEq(q.responses_expected, wr[c].response_counts[RequestKey(q)])

\* C26: the stored next_request_to_process of a flow never decreases,
\* whatever WriteFlowObject, UpdateFlow, LeaseFlowForProcessing and
\* ReleaseProcessedFlow calls are made.
C26_NextRequestNeverDecreases ==
  [][\A f \in DOMAIN flows :
       flows'[f].next_request_to_process >=
         flows[f].next_request_to_process]_vars

\* A column is what its argument says: the value the argument holds, or
\* the stored value when it holds none.
Written(before, after, arg) ==
  after = IF arg = <<>> THEN before ELSE arg[1]

\* What an UpdateFlow call with arguments a may have done to a row.
UpdateFrame(a, row, new) ==
  /\ new.next_request_to_process = row.next_request_to_process
  /\ new.parent_hunt_id = row.parent_hunt_id
  /\ Written(row.processing_on, new.processing_on, a.processing_on)
  /\ Written(row.processing_since, new.processing_since, a.processing_since)
  /\ Written(row.processing_deadline, new.processing_deadline,
             a.processing_deadline)
  /\ new.client_crash_info =
       IF a.client_crash_info = <<>> THEN row.client_crash_info
       ELSE Some(a.client_crash_info[1])
  /\ new.flow_state =
       IF a.flow_state # <<>> THEN a.flow_state[1]
       ELSE IF a.flow_obj # <<>> THEN a.flow_obj[1].flow_state
       ELSE row.flow_state
  /\ IF a.flow_obj = <<>>
     THEN /\ new.flow = row.flow
          /\ new.user_cpu_time_used_micros = row.user_cpu_time_used_micros
          /\ new.system_cpu_time_used_micros =
               row.system_cpu_time_used_micros
          /\ new.network_bytes_sent = row.network_bytes_sent
          /\ new.num_replies_sent = row.num_replies_sent
     ELSE /\ new.flow = a.flow_obj[1].flow
          /\ new.user_cpu_time_used_micros =
               a.flow_obj[1].user_cpu_time_used_micros
          /\ new.system_cpu_time_used_micros =
               a.flow_obj[1].system_cpu_time_used_micros
          /\ new.network_bytes_sent = a.flow_obj[1].network_bytes_sent
          /\ new.num_replies_sent = a.flow_obj[1].num_replies_sent

\* C27: UpdateFlow writes the columns of the arguments it is given, a flow
\* object standing for payload, state and the accounting counters and None
\* clearing a lease field, and leaves every other column but last_update
\* as stored: next_request_to_process always, the lease fields when they
\* are not given.
C27_UpdateFlowWritesOnlySuppliedColumns ==
  [][\A f \in FlowIds :
       ( /\ hist'.ret.op = "UpdateFlow"
         /\ hist'.ret.arg.flow_id = f
         /\ f \in DOMAIN flows ) =>
         /\ DOMAIN flows' = DOMAIN flows
         /\ UpdateFrame(hist'.ret.arg.args, flows[f], flows'[f])]_vars

\* C27 witness: a call with a flow object that names another next request,
\* a state and None for processing_on has written payload, state and
\* processing_on and left next_request_to_process, processing_since and
\* processing_deadline of the leased flow as they were.
C27_Witness ==
  \E f \in FlowIds :
    /\ f \in DOMAIN flows
    /\ hist.ret.op = "UpdateFlow"
    /\ hist.ret.arg.flow_id = f
    /\ hist.ret.arg.args.flow_obj # <<>>
    /\ hist.ret.arg.args.flow_state = <<"ERROR">>
    /\ hist.ret.arg.args.processing_on = <<NULL>>
    /\ hist.ret.arg.args.processing_since = <<>>
    /\ hist.ret.arg.args.processing_deadline = <<>>
    /\ flows[f].next_request_to_process #
         hist.ret.arg.args.flow_obj[1].next_request_to_process
    /\ flows[f].flow = "updated"
    /\ flows[f].flow_state = "ERROR"
    /\ flows[f].processing_on = NULL
    /\ flows[f].processing_since = Some(0)
    /\ flows[f].processing_deadline = Some(2)
    /\ flows[f].last_update = now

\* C28: UpdateFlow for a flow that is not stored raises UnknownFlowError
\* and creates no row, whatever arguments it is given, the call without
\* any argument included.
C28_UpdateOfUnknownFlowRaises ==
  [][\A f \in FlowIds :
       ( /\ hist'.ret.op = "UpdateFlow"
         /\ hist'.ret.arg.flow_id = f
         /\ f \notin DOMAIN flows ) =>
         /\ hist'.ret.error = "UnknownFlowError"
         /\ flows' = flows]_vars

\* C28, amended: the call raises UnknownFlowError and creates no row when
\* it is given an argument; the call without any argument returns without
\* error, whether the flow is stored or not, and writes nothing.
C28_UpdateOfUnknownFlowRaisesUnlessEmpty ==
  [][\A f \in FlowIds :
       ( /\ hist'.ret.op = "UpdateFlow"
         /\ hist'.ret.arg.flow_id = f ) =>
         IF hist'.ret.arg.args =
              UpdateArgs(<<>>, <<>>, <<>>, <<>>, <<>>, <<>>)
         THEN /\ hist'.ret.error = "none"
              /\ flows' = flows
         ELSE f \notin DOMAIN flows =>
                /\ hist'.ret.error = "UnknownFlowError"
                /\ flows' = flows]_vars

\* C28 witness: a call that was given a state and no other argument for a
\* flow that is not stored has raised UnknownFlowError, and no flow is
\* stored.
C28_Witness ==
  /\ hist.ret.op = "UpdateFlow"
  /\ hist.ret.error = "UnknownFlowError"
  /\ hist.ret.arg.args =
       UpdateArgs(<<>>, <<"ERROR">>, <<>>, <<>>, <<>>, <<>>)
  /\ flows = <<>>

\* The step is the WriteFlowObject call that hist.ret records afterwards,
\* and the key of its flow object is stored before it.
WritesStoredKey ==
  /\ hist'.ret.op = "WriteFlowObject"
  /\ WriteFlowObject(hist'.ret.arg.flow_obj, hist'.ret.arg.allow_update)
  /\ hist'.ret.arg.flow_obj.flow_id \in DOMAIN flows

\* C29: WriteFlowObject with allow_update=False for a key that is stored
\* fails with FlowExistsError and leaves the flows table as it is; with
\* allow_update=True the call succeeds, and the row then holds the flow of
\* the flow object.
C29_WriteOfStoredKeyFailsUnlessAllowUpdate ==
  [][WritesStoredKey =>
       LET o == hist'.ret.arg.flow_obj
       IN IF hist'.ret.arg.allow_update
          THEN /\ hist'.ret.error = "none"
               /\ DOMAIN flows' = DOMAIN flows
               /\ flows'[o.flow_id].flow = o.flow
               /\ flows'[o.flow_id].flow_state = o.flow_state
          ELSE /\ hist'.ret.error = "FlowExistsError"
               /\ flows' = flows]_vars

\* C29 witness: a write without allow_update of a flow object that differs
\* from the stored row in its flow and its next request has failed with
\* FlowExistsError.
C29_Witness ==
  /\ hist.ret.op = "WriteFlowObject"
  /\ hist.ret.error = "FlowExistsError"
  /\ ~hist.ret.arg.allow_update
  /\ LET o == hist.ret.arg.flow_obj
     IN /\ o.flow_id \in DOMAIN flows
        /\ flows[o.flow_id].flow # o.flow
        /\ flows[o.flow_id].next_request_to_process #
             o.next_request_to_process

\* The step is the AckFlowProcessingRequests call that hist.ret records
\* afterwards.
AckStep ==
  /\ hist'.ret.op = "AckFlowProcessingRequests"
  /\ AckFlowProcessingRequests(hist'.ret.arg)

\* Item q is a FlowProcessingRequest of the key of row r.
SameFprKey(q, r) ==
  /\ q.flow_id = r.flow_id
  /\ q.creation_time = TimestampToMicrosecondsSinceEpoch(r.timestamp)

\* C30: AckFlowProcessingRequests raises no error and removes exactly the
\* rows whose flow and creation timestamp are those of a given item; when
\* no row has the key of a given item, as after the same call was made
\* before, the table stays as it is.
C30_AckRemovesExactlyTheGivenKeys ==
  [][AckStep =>
       /\ hist'.ret.error = "none"
       /\ flow_processing_requests' =
            { r \in flow_processing_requests :
                \A q \in hist'.ret.arg : ~SameFprKey(q, r) }
       /\ (\A r \in flow_processing_requests :
             \A q \in hist'.ret.arg : ~SameFprKey(q, r)) =>
            flow_processing_requests' = flow_processing_requests]_vars

\* C30 witness: the item of F1 written at time 0 was acknowledged: both
\* rows of that key are gone, and the row of F9 of the same statement and a
\* row of F1 written later are in the table.
C30_Witness ==
  /\ hist.ret.op = "AckFlowProcessingRequests"
  /\ hist.ret.arg =
       { [ flow_id |-> "F1",
           creation_time |-> TimestampToMicrosecondsSinceEpoch(0) ] }
  /\ \A r \in flow_processing_requests :
       ~(r.flow_id = "F1" /\ r.timestamp = 0)
  /\ \E r \in flow_processing_requests :
       r.flow_id = "F9" /\ r.timestamp = 0
  /\ \E r \in flow_processing_requests :
       r.flow_id = "F1" /\ r.timestamp > 0

\* C31: DeleteMessageHandlerRequests removes the stored items whose handler
\* name and request id are those of a given item, and no other: an item
\* with the same request id under another handler name stays.
C31_DeleteRemovesOnlyTheGivenItems ==
  [][( /\ hist'.ret.op = "DeleteMessageHandlerRequests"
       /\ DeleteMessageHandlerRequests(hist'.ret.arg) ) =>
       message_handler_requests' =
         { r \in message_handler_requests : MhKey(r) \notin hist'.ret.arg }
    ]_vars

----------------------------------------------------------------------------
(* Properties of the stored requests and responses of two flows.           *)

\* The stored requests of flow f and the stored responses of a request.
RequestsOfFlow(f) == { q \in flow_requests : q.flow_id = f }

ResponsesOfRequest(f, id) ==
  { r \in flow_responses : r.flow_id = f /\ r.request_id = id }

\* The step is the call that hist.ret records afterwards.
DeleteAllStep ==
  /\ hist'.ret.op = "DeleteAllFlowRequestsAndResponses"
  /\ DeleteAllFlowRequestsAndResponses(hist'.ret.arg)

ReadAllStep ==
  /\ hist'.ret.op = "ReadAllFlowRequestsAndResponses"
  /\ ReadAllFlowRequestsAndResponses(hist'.ret.arg)

ReadFlowRequestsStep ==
  /\ hist'.ret.op = "ReadFlowRequests"
  /\ ReadFlowRequests(hist'.ret.arg)

DeleteFlowRequestsStep ==
  /\ hist'.ret.op = "DeleteFlowRequests"
  /\ DeleteFlowRequests(hist'.ret.arg)

\* C32: DeleteAllFlowRequestsAndResponses of a flow leaves no request and
\* no response of the flow, so that ReadAllFlowRequestsAndResponses and
\* ReadFlowRequests of the flow return nothing; the requests and responses
\* of every other flow and the flows table stay as they are.
C32_DeleteAllEmptiesOnlyTheFlow ==
  [][/\ DeleteAllStep =>
          /\ flow_requests' =
               { q \in flow_requests : q.flow_id # hist'.ret.arg }
          /\ flow_responses' =
               { r \in flow_responses : r.flow_id # hist'.ret.arg }
          /\ flows' = flows
     /\ (ReadAllStep /\ RequestsOfFlow(hist'.ret.arg) = {}) =>
          hist'.ret.result = <<>>
     /\ (ReadFlowRequestsStep /\ RequestsOfFlow(hist'.ret.arg) = {}) =>
          DOMAIN hist'.ret.result = {}]_vars

\* C32 witness: the call for F1 has deleted requests and responses, and a
\* request of F9 and its response are stored.
C32_Witness ==
  /\ hist.ret.op = "DeleteAllFlowRequestsAndResponses"
  /\ hist.ret.arg = "F1"
  /\ hist.ret.result[1] > 0
  /\ hist.ret.result[2] > 0
  /\ RequestsOfFlow("F1") = {}
  /\ ResponsesOfRequest("F9", 1) # {}

\* C33: ReadAllFlowRequestsAndResponses returns every stored request of the
\* flow once, in ascending request_id order, each with the stored responses
\* of that request; ReadFlowRequests returns for every stored request the
\* list of its stored responses in ascending response_id order.
C33_ReadsReturnSortedRequestsAndResponses ==
  [][/\ ReadAllStep =>
          LET f == hist'.ret.arg
              res == hist'.ret.result
          IN /\ Len(res) = Cardinality(RequestsOfFlow(f))
             /\ { res[i][1] : i \in DOMAIN res } = RequestsOfFlow(f)
             /\ \A i, j \in DOMAIN res :
                  i < j => res[i][1].request_id < res[j][1].request_id
             /\ \A i \in DOMAIN res :
                  /\ { res[i][2][id] : id \in DOMAIN res[i][2] } =
                       ResponsesOfRequest(f, res[i][1].request_id)
                  /\ \A id \in DOMAIN res[i][2] :
                       res[i][2][id].response_id = id
     /\ ReadFlowRequestsStep =>
          LET f == hist'.ret.arg
              res == hist'.ret.result
          IN /\ DOMAIN res = { q.request_id : q \in RequestsOfFlow(f) }
             /\ \A id \in DOMAIN res :
                  /\ res[id][1] \in RequestsOfFlow(f)
                  /\ res[id][1].request_id = id
                  /\ Len(res[id][2]) =
                       Cardinality(ResponsesOfRequest(f, id))
                  /\ { res[id][2][i] : i \in DOMAIN res[id][2] } =
                       ResponsesOfRequest(f, id)
                  /\ \A i, j \in DOMAIN res[id][2] :
                       i < j => res[id][2][i].response_id <
                                  res[id][2][j].response_id]_vars

\* C33 witness: ReadAllFlowRequestsAndResponses has returned the two
\* requests of F1, the first of them with two responses.
C33_Witness ==
  /\ hist.ret.op = "ReadAllFlowRequestsAndResponses"
  /\ hist.ret.arg = "F1"
  /\ Len(hist.ret.result) = 2
  /\ DOMAIN hist.ret.result[1][2] = {1, 2}

\* Every stored response belongs to a stored request and every stored
\* request to a stored flow.
NoOrphans ==
  /\ \A r \in flow_responses : \E q \in flow_requests :
       RequestKey(q) = <<r.flow_id, r.request_id>>
  /\ \A q \in flow_requests : q.flow_id \in DOMAIN flows

\* C39: every stored response belongs to a stored request and every stored
\* request to a stored flow; DeleteFlowRequests removes the requests of the
\* given keys together with their responses and leaves the other requests
\* and responses as they are.
C39_NoResponseOutlivesItsRequest ==
  /\ []NoOrphans
  /\ [][DeleteFlowRequestsStep =>
          LET requests == hist'.ret.arg
              keys == { RequestKey(requests[i]) : i \in DOMAIN requests }
          IN /\ flow_requests' =
                  { q \in flow_requests : RequestKey(q) \notin keys }
             /\ flow_responses' =
                  { r \in flow_responses :
                      <<r.flow_id, r.request_id>> \notin keys }]_vars

\* C39 witness: DeleteFlowRequests has deleted request 1 of F1 and its
\* responses, and request 2 of F1 and the response of F9 are stored.
C39_Witness ==
  /\ hist.ret.op = "DeleteFlowRequests"
  /\ Len(hist.ret.arg) = 1
  /\ hist.ret.result = <<2, 1>>
  /\ RequestsOfFlow("F1") # {}
  /\ \A q \in flow_requests : RequestKey(q) # <<"F1", 1>>
  /\ ResponsesOfRequest("F9", 1) # {}

----------------------------------------------------------------------------
(* Properties of requests that complete ahead of their turn.               *)

\* The request the flow object names as its next one is stored and marked,
\* no FlowProcessingRequest was written for it, and the stored flow is not
\* yet at that request.
MarkedAhead(o) ==
  /\ flows[o.flow_id].next_request_to_process # o.next_request_to_process
  /\ \E q \in flow_requests :
       /\ q.flow_id = o.flow_id
       /\ q.request_id = o.next_request_to_process
       /\ q.needs_processing
       /\ hist.fpr_for[RequestKey(q)] = 0

\* C34: the detection transaction of WriteFlowResponses that marks a
\* request whose request_id is not its flow's next_request_to_process
\* writes no FlowProcessingRequest for it, and a later ReleaseProcessedFlow
\* that advances next_request_to_process to that request returns False.
C34_MarkedAheadBlocksTheRelease ==
  [][/\ \A c \in Callers :
          UpdateRequestsAndScheduleFPRs_Commit(c) =>
            \A k \in NewlyMarked(flow_requests, flow_requests') :
              wr[c].next_requests[k[1]] # k[2] =>
                hist'.fpr_for[k] = hist.fpr_for[k]
     /\ \A o \in ReleaseObjs :
          (ReleaseProcessedFlow("w1", o) /\ MarkedAhead(o)) =>
            hist'.ret.result = FALSE]_vars

----------------------------------------------------------------------------
(* Properties of late releases.                                            *)

\* The lease worker w was given has run out, and the flow row carries the
\* lease of another worker, given after that and with a deadline that has
\* not passed.
LeaseWentToAnother(w, f) ==
  /\ WasGiven(w, f)
  /\ Val(hist.lease[w]).processing_deadline <= now
  /\ flows[f].processing_on # NULL
  /\ flows[f].processing_on # Some(w)
  /\ flows[f].processing_since # NULL
  /\ Val(flows[f].processing_since) >=
       Val(hist.lease[w]).processing_deadline
  /\ flows[f].processing_deadline # NULL
  /\ Val(flows[f].processing_deadline) > now

\* C35: a ReleaseProcessedFlow of a worker whose lease has run out and has
\* gone to another worker leaves the other worker's lease and the flow
\* state that worker advances as they are.
C35_LateReleaseKeepsTheOtherLease ==
  [][\A w \in Workers, o \in ReleaseObjs :
       (LeaseWentToAnother(w, o.flow_id) /\ ReleaseProcessedFlow(w, o)) =>
         /\ flows'[o.flow_id].processing_on = flows[o.flow_id].processing_on
         /\ flows'[o.flow_id].processing_since =
              flows[o.flow_id].processing_since
         /\ flows'[o.flow_id].processing_deadline =
              flows[o.flow_id].processing_deadline
         /\ flows'[o.flow_id].flow = flows[o.flow_id].flow
         /\ flows'[o.flow_id].next_request_to_process =
              flows[o.flow_id].next_request_to_process]_vars

----------------------------------------------------------------------------
(* Properties of releases and start times.                                 *)

\* The request the flow object names as its next one is stored, marked and
\* carries a start_time.
NextRequestMarkedWithStartTime(o) ==
  { q \in flow_requests :
      /\ q.flow_id = o.flow_id
      /\ q.request_id = o.next_request_to_process
      /\ q.needs_processing
      /\ q.start_time # NULL }

\* C36: a marked request at next_request_to_process whose start_time is
\* still in the future does not block ReleaseProcessedFlow, which applies
\* and returns True; once the start_time has passed, the request makes
\* ReleaseProcessedFlow return False and the flow row stays as it is.
C36_FutureStartTimeDoesNotBlockRelease ==
  [][\A w \in Workers, o \in ReleaseObjs :
       (HoldsLease(w, o.flow_id) /\ ReleaseProcessedFlow(w, o)) =>
         \A q \in NextRequestMarkedWithStartTime(o) :
           /\ Val(q.start_time) > now =>
                /\ hist'.ret.result = TRUE
                /\ flows'[o.flow_id].processing_on = NULL
                /\ flows'[o.flow_id].next_request_to_process =
                     o.next_request_to_process
                /\ flows'[o.flow_id].flow = o.flow
           /\ Val(q.start_time) < now =>
                /\ hist'.ret.result = FALSE
                /\ flows' = flows]_vars

\* C36 witness: the release that advances the flow to request 2, which is
\* marked and starts at time 1, was applied at time 0 and returned True.
C36_Witness ==
  /\ hist.ret.op = "ReleaseProcessedFlow"
  /\ hist.ret.result = TRUE
  /\ hist.ret.arg.next_request_to_process = 2
  /\ now = 0
  /\ \E q \in NextRequestMarkedWithStartTime(hist.ret.arg) :
       q.start_time = Some(1)
  /\ flows[hist.ret.arg.flow_id].processing_on = NULL
  /\ flows[hist.ret.arg.flow_id].next_request_to_process = 2

----------------------------------------------------------------------------
(* Properties of upserts.                                                  *)

\* The columns of a flows row that an upsert may write.
UpsertColumns ==
  {"flow", "flow_state", "next_request_to_process", "last_update"}

\* C40: WriteFlowObject with allow_update=True on a stored flow overwrites
\* only flow, flow_state, next_request_to_process and last_update: the lease
\* fields and the accounting counters (and every other column) keep their
\* stored values, and no other row changes.
C40_UpsertKeepsLeaseAndCounters ==
  [][(WritesStoredKey /\ hist'.ret.arg.allow_update) =>
       LET o == hist'.ret.arg.flow_obj
           f == o.flow_id
       IN /\ DOMAIN flows' = DOMAIN flows
          /\ \A g \in DOMAIN flows \ {f} : flows'[g] = flows[g]
          /\ \A col \in DOMAIN flows[f] \ UpsertColumns :
               flows'[f][col] = flows[f][col]
          /\ flows'[f].flow = o.flow
          /\ flows'[f].flow_state = o.flow_state
          /\ flows'[f].next_request_to_process = o.next_request_to_process
          /\ flows'[f].last_update = now]_vars

\* C40 witness: an upsert has written the flow of a row that is leased, with
\* a flow object whose counters differ from the stored ones; the lease is
\* still there.
C40_Witness ==
  /\ hist.ret.op = "WriteFlowObject"
  /\ hist.ret.error = "none"
  /\ hist.ret.arg.allow_update
  /\ LET o == hist.ret.arg.flow_obj
     IN /\ o.flow_id \in DOMAIN flows
        /\ flows[o.flow_id].flow = o.flow
        /\ flows[o.flow_id].processing_on = Some(Self)
        /\ flows[o.flow_id].processing_deadline # NULL
        /\ flows[o.flow_id].num_replies_sent # o.num_replies_sent
        /\ flows[o.flow_id].user_cpu_time_used_micros #
             o.user_cpu_time_used_micros

----------------------------------------------------------------------------
(* Properties of stopped calls.                                            *)

\* C37: when a request has all its responses stored and is not marked, a
\* later WriteFlowResponses call that re-sends one response of the request
\* stores nothing new but names the request in its completion detection,
\* and its detection transaction marks the request needs_processing and,
\* when the request is the flow's next_request_to_process, writes a
\* FlowProcessingRequest for the flow.
C37_ResendMarksTheCompleteRequest ==
  [][/\ \A r \in ClientMsgs :
          ( /\ r \in flow_responses
            /\ RequestKey(r) \in CompleteUnmarked
            /\ WriteFlowResponses("A", <<r>>, WRITE_ROWS_BATCH_SIZE) ) =>
            /\ flow_responses' = flow_responses
            /\ RequestKey(r) \in wr'["A"].request_keys
            /\ RequestKey(r) \in CompleteUnmarked'
     /\ \A k \in RequestKeys :
          ( /\ k \in wr["A"].request_keys
            /\ k \in CompleteUnmarked
            /\ UpdateRequestsAndScheduleFPRs_Commit("A") ) =>
            /\ \E q \in flow_requests' :
                 RequestKey(q) = k /\ q.needs_processing
            /\ flows[k[1]].next_request_to_process = k[2] =>
                 \E p \in flow_processing_requests' \ flow_processing_requests :
                   p.flow_id = k[1]]_vars

\* C37 witness: a call stopped and left a request complete and unmarked;
\* the request, the flow's next one, has since been marked and notified.
C37_Witness ==
  /\ hist.ret.op = "WriteFlowResponses_Stop"
  /\ wr["A"].pc = "idle"
  /\ \E k \in hist.ret.arg :
       /\ hist.marks[k] = 1
       /\ hist.fpr_for[k] = 1
       /\ flows[k[1]].next_request_to_process = k[2]
       /\ \E q \in flow_requests : RequestKey(q) = k /\ q.needs_processing
       /\ \E p \in flow_processing_requests : p.flow_id = k[1]

----------------------------------------------------------------------------
(* Properties of batch sizes.                                              *)

\* Both calls have been made and have returned.
BothCallsReturned ==
  /\ \A c \in Callers : wr[c].pc = "idle"
  /\ ResponsesOfFlow(BatchedFlow) # {}
  /\ ResponsesOfFlow(WholeFlow) # {}

FprsOfFlow(f) == { p \in flow_processing_requests : p.flow_id = f }

====
